---- MODULE Spec2Model ----
(***************************************************************************)
(* A model of pocketfft.cc: the size helpers, the mixed-radix plans        *)
(* (cfftp, rfftp), the Bluestein plan (fftblue), the dispatchers           *)
(* (pocketfft_c, pocketfft_r) and the multi-axis driver behind             *)
(* pocketfft_complex.                                                      *)
(*                                                                         *)
(* size_t values that can exceed what TLC's integers hold (lengths with    *)
(* more than 25 factors are above 2^31) are kept as records                *)
(* [p2, p3, m] standing for 2^p2 * 3^p3 * m, with m prime to 6; the        *)
(* operations the code applies to a length (&, >>, %, /, sqrt, >) are      *)
(* defined on that representation.                                         *)
(***************************************************************************)
EXTENDS Integers, Sequences, FiniteSets, TLC

\* ------------------------------------------------------------------ bounds
\* Lengths 0..MaxLen are constructed and transformed as plain integers.
MaxLen == 40
\* Exponents of the large lengths 2^p2 * 3^p3 * m handed to the constructors.
MaxP2 == 53
MaxP3 == 27
\* Values at or above Sat are all kept as Sat ("too large to matter").
Sat == 1048576
\* The components of the samples whose values are followed exactly are in
\* 0..MaxVal.
MaxVal == 1
\* The scale factors handed to the transforms are in 1..MaxFact.
MaxFact == 2
\* The first MaxAllocFail allocations of one operation may fail.
MaxAllocFail == 5
\* The extents of the arrays handed to pocketfft_complex are in 0..MaxExt.
MaxExt == 2
\* Addresses are followed modulo 2^AddrBits.
AddrBits == 16
\* The plans built to look at the choice of the algorithm, the factors and
\* the tables have the lengths 1..MaxPlanLen.
MaxPlanLen == 541

\* The trig tables are generated for the lengths 1..MaxTrigLen: the first
\* octant of a length divisible by 4 has both of its loops from 28 on.
MaxTrigLen == 40

\* The index sequences of the generic routines are followed for the factors
\* up to MaxRootIp of the plans built.
MaxRootIp == 61

\* The tables of the Bluestein plan are built for the lengths 1..MaxBlueLen;
\* the trig table of the length n has 2n entries.
MaxBlueLen == 20

\* The multi_iter is followed over arrays of 1..MaxIterDim dimensions, so that
\* up to MaxIterDim - 1 positions carry.
MaxIterDim == 3

\* ------------------------------------------------------- program constants
NFCT == 25

\* ---------------------------------------------------------------- numbers
\* F applied to the value of v: names an intermediate result, computed once
Bind(v, F(_)) == CHOOSE y \in {F(x) : x \in {v}} : TRUE

Min(a, b) == IF a < b THEN a ELSE b
Max(a, b) == IF a < b THEN b ELSE a

\* a * b, kept at Sat when it reaches Sat (a, b >= 0)
SatMul(a, b) ==
  IF a = 0 \/ b = 0 THEN 0
  ELSE IF a >= Sat \/ b >= Sat \/ a > Sat \div b THEN Sat
  ELSE Min(a * b, Sat)

SatAdd(a, b) == IF a >= Sat \/ b >= Sat THEN Sat ELSE Min(a + b, Sat)

\* b^e for b = 2 or 3, kept at Sat when it reaches Sat: the powers up to
\* 2^30 and 3^19 are computed, the higher ones are above Sat
SatPow(b, e) ==
  IF e > (IF b = 2 THEN 30 ELSE 19) THEN Sat ELSE Min(b ^ e, Sat)

\* the exponent of the prime p in n (n >= 1)
RECURSIVE Val(_, _)
Val(p, n) == IF n % p = 0 THEN 1 + Val(p, n \div p) ELSE 0

RECURSIVE Strip(_, _)
Strip(p, n) == IF n % p = 0 THEN Strip(p, n \div p) ELSE n

\* the size_t value n >= 0 as a record
ToNum(n) ==
  IF n = 0 THEN [p2 |-> 0, p3 |-> 0, m |-> 0]
  ELSE [p2 |-> Val(2, n), p3 |-> Val(3, n), m |-> Strip(3, Strip(2, n))]

\* the value of x, kept at Sat when it reaches Sat
NVal(x) == SatMul(SatMul(SatPow(2, x.p2), SatPow(3, x.p3)), x.m)

NIsZero(x) == x.m = 0
NIsOne(x) == x.m = 1 /\ x.p2 = 0 /\ x.p3 = 0
\* len > 1
NGt1(x) == ~NIsZero(x) /\ ~NIsOne(x)
\* (len & (2^k - 1)) == 0, that is len % 2^k == 0
NLowZero(x, k) == NIsZero(x) \/ x.p2 >= k
\* len >>= k, applied when the k low bits are zero
NShr(x, k) == IF NIsZero(x) THEN x ELSE [x EXCEPT !.p2 = x.p2 - k]
\* (len % d) == 0 for an odd d >= 3
NDivides(d, x) == x.p3 >= Val(3, d) /\ x.m % Strip(3, d) = 0
\* len /= d, applied when d divides len (d odd)
NDiv(x, d) == [x EXCEPT !.p3 = x.p3 - Val(3, d), !.m = x.m \div Strip(3, d)]
\* x * f for a stored factor f >= 2
NMul(x, f) ==
  [p2 |-> x.p2 + Val(2, f), p3 |-> x.p3 + Val(3, f),
   m |-> x.m * Strip(3, Strip(2, f))]
\* x / y for y dividing x
NQuot(x, y) == [p2 |-> x.p2 - y.p2, p3 |-> x.p3 - y.p3, m |-> x.m \div y.m]

\* (size_t)sqrt((double)n): the integer square root
RECURSIVE IsqrtBetween(_, _, _)
IsqrtBetween(n, lo, hi) ==
  IF hi - lo <= 1 THEN lo
  ELSE LET mid == (lo + hi) \div 2
       IN IF mid * mid <= n THEN IsqrtBetween(n, mid, hi)
          ELSE IsqrtBetween(n, lo, mid)

Isqrt(n) == IsqrtBetween(n, 0, Min(n, 46340) + 1)

\* ------------------------------------------------------------ size helpers
\* largest_prime_factor: the inner while loop dividing n by x
RECURSIVE lpf_divide(_, _, _)
lpf_divide(n, x, res) ==
  IF (n \div x) * x = n THEN lpf_divide(n \div x, x, x)
  ELSE [n |-> n, res |-> res]

RECURSIVE lpf_odd(_, _, _, _)
lpf_odd(n, x, limit, res) ==
  IF x <= limit
  THEN LET d == lpf_divide(n, x, res)
       IN lpf_odd(d.n, x + 2, IF d.n = n THEN limit ELSE Isqrt(d.n), d.res)
  ELSE IF n > 1 THEN n ELSE res

RECURSIVE lpf_even(_, _)
lpf_even(n, res) ==
  IF n % 2 = 0 THEN lpf_even(n \div 2, 2)
  ELSE lpf_odd(n, 3, Isqrt(n), res)

\* largest_prime_factor(n), n >= 1 (n = 0 never leaves the first loop)
largest_prime_factor(n) == lpf_even(n, 1)

\* cost_guess works in double; every term is p or 1.1*p, so ten times the
\* result is an integer: the operators below compute 10 * cost_guess.
CostTerm10(x) == IF x <= 5 THEN 10 * x ELSE 11 * x

RECURSIVE cost_divide(_, _, _)
cost_divide(n, x, result) ==
  IF (n \div x) * x = n THEN cost_divide(n \div x, x, result + CostTerm10(x))
  ELSE [n |-> n, result |-> result]

RECURSIVE cost_odd(_, _, _, _)
cost_odd(n, x, limit, result) ==
  IF x <= limit
  THEN LET d == cost_divide(n, x, result)
       IN cost_odd(d.n, x + 2, IF d.n = n THEN limit ELSE Isqrt(d.n), d.result)
  ELSE IF n > 1 THEN result + CostTerm10(n) ELSE result

RECURSIVE cost_even(_, _)
cost_even(n, result) ==
  IF n % 2 = 0 THEN cost_even(n \div 2, result + 20)
  ELSE cost_odd(n, 3, Isqrt(n), result)

\* 10 * cost_guess(n), n >= 1
cost_guess10(n) == cost_even(n, 0) * n

\* good_size: the five nested loops, innermost first; each returns bestfac
\* the innermost loop taking only the products above n
RECURSIVE gs_loop11_above(_, _, _)
gs_loop11_above(f, bestfac, n) ==
  IF f < bestfac
  THEN gs_loop11_above(f * 11, IF f > n THEN f ELSE bestfac, n)
  ELSE bestfac

RECURSIVE gs_loop11(_, _, _)
gs_loop11(f, bestfac, n) ==
  IF f < bestfac
  THEN gs_loop11(f * 11, IF f >= n THEN f ELSE bestfac, n)
  ELSE bestfac

RECURSIVE gs_loop7(_, _, _)
gs_loop7(f, bestfac, n) ==
  IF f < bestfac THEN gs_loop7(f * 7, gs_loop11(f, bestfac, n), n) ELSE bestfac

RECURSIVE gs_loop5(_, _, _)
gs_loop5(f, bestfac, n) ==
  IF f < bestfac THEN gs_loop5(f * 5, gs_loop7(f, bestfac, n), n) ELSE bestfac

RECURSIVE gs_loop3(_, _, _)
gs_loop3(f, bestfac, n) ==
  IF f < bestfac THEN gs_loop3(f * 3, gs_loop5(f, bestfac, n), n) ELSE bestfac

RECURSIVE gs_loop2(_, _, _)
gs_loop2(f, bestfac, n) ==
  IF f < bestfac THEN gs_loop2(f * 2, gs_loop3(f, bestfac, n), n) ELSE bestfac

good_size(n) == IF n <= 12 THEN n ELSE gs_loop2(1, 2 * n, n)

\* ------------------------------------------------------------- allocation
\* ralloc: aligned_alloc may return null.  al is the sequence of outcomes of
\* the first allocations of one operation (TRUE: memory was obtained; the
\* allocations after them obtain memory), a the number of allocations made
\* before this one.
ralloc(num, al, a) ==
  [null |-> IF a + 1 <= Len(al) THEN ~al[a + 1] ELSE FALSE, na |-> a + 1]

\* arr(): no storage
arr_empty == [null |-> TRUE, sz |-> 0]

\* arr(n): throws bad_alloc when the allocation of n > 0 elements fails
arr_ctor(n, al, a) ==
  LET r == ralloc(n, al, a)
  IN [arr |-> [null |-> r.null, sz |-> n], na |-> r.na,
      exc |-> IF r.null /\ n # 0 THEN "bad_alloc" ELSE "none"]

\* arr::resize(n): the result of ralloc is stored unchecked
arr_resize(x, n, al, a) ==
  IF n = x.sz THEN [arr |-> x, na |-> a, exc |-> "none"]
  ELSE LET r == ralloc(n, al, a)
       IN [arr |-> [null |-> r.null, sz |-> n], na |-> r.na, exc |-> "none"]

\* --------------------------------------------------- factorization (shared)
NoFactors == [nfct |-> 0, fct |-> <<>>, exc |-> "none"]

\* add_factor with the bound check off by one (nfct>NFCT)
add_factor_late_check(s, factor) ==
  IF s.nfct > NFCT THEN [s EXCEPT !.exc = "too many prime factors"]
  ELSE [s EXCEPT !.fct = Append(@, factor), !.nfct = @ + 1]

\* add_factor: the bound check, then fct[nfct++].fct = factor
add_factor(s, factor) ==
  IF s.nfct >= NFCT THEN [s EXCEPT !.exc = "too many prime factors"]
  ELSE [s EXCEPT !.fct = Append(@, factor), !.nfct = @ + 1]

\* the factor 2 left where add_factor put it
swap_first_last_omitted(s) == s

\* swap(fct[0].fct, fct[nfct-1].fct)
swap_first_last(s) ==
  [s EXCEPT !.fct = [i \in 1..Len(@) |->
                       IF i = 1 THEN @[s.nfct]
                       ELSE IF i = s.nfct THEN @[1] ELSE @[i]]]

\* while ((len&3)==0) { add_factor(4); len>>=2; }
RECURSIVE peel_fours(_, _)
peel_fours(s, len) ==
  IF NLowZero(len, 2)
  THEN LET s2 == add_factor(s, 4)
       IN IF s2.exc # "none" THEN [s |-> s2, len |-> len]
          ELSE peel_fours(s2, NShr(len, 2))
  ELSE [s |-> s, len |-> len]

\* if ((len&1)==0) { len>>=1; add_factor(2); swap(fct[0], fct[nfct-1]); }
peel_two(s, len) ==
  IF NLowZero(len, 1)
  THEN Bind(add_factor(s, 2), LAMBDA s2 :
         IF s2.exc # "none" THEN [s |-> s2, len |-> NShr(len, 1)]
         ELSE [s |-> swap_first_last(s2), len |-> NShr(len, 1)])
  ELSE [s |-> s, len |-> len]

\* (size_t)(sqrt((double)len))+1
factor_maxl(len) == Isqrt(NVal(len)) + 1

\* while ((len%divisor)==0) { add_factor(divisor); len/=divisor; }
RECURSIVE divide_out(_, _, _)
divide_out(s, len, divisor) ==
  IF NDivides(divisor, len)
  THEN LET s2 == add_factor(s, divisor)
       IN IF s2.exc # "none" THEN [s |-> s2, len |-> len]
          ELSE divide_out(s2, NDiv(len, divisor), divisor)
  ELSE [s |-> s, len |-> len]

\* for (divisor=3; (len>1)&&(divisor<maxl); divisor+=2) if (len%divisor==0) ...
RECURSIVE trial_division(_, _, _, _)
trial_division(s, len, divisor, maxl) ==
  IF NGt1(len) /\ divisor < maxl
  THEN IF NDivides(divisor, len)
       THEN LET d == divide_out(s, len, divisor)
            IN IF d.s.exc # "none" THEN d
               ELSE trial_division(d.s, d.len, divisor + 2, factor_maxl(d.len))
       ELSE trial_division(s, len, divisor + 2, maxl)
  ELSE [s |-> s, len |-> len]

\* if (len>1) add_factor(len);
add_rest(s, len) == IF NGt1(len) THEN add_factor(s, NVal(len)) ELSE s

\* cfftp::factorize
cfftp_factorize(length) ==
  Bind(peel_fours(NoFactors, length), LAMBDA a :
    IF a.s.exc # "none" THEN a.s
    ELSE Bind(peel_two(a.s, a.len), LAMBDA b :
      IF b.s.exc # "none" THEN b.s
      ELSE Bind(trial_division(b.s, b.len, 3, factor_maxl(b.len)), LAMBDA c :
        IF c.s.exc # "none" THEN c.s ELSE add_rest(c.s, c.len))))

\* rfftp::factorize: the same loops, written with % where cfftp uses &
rfftp_factorize(length) ==
  Bind(peel_fours(NoFactors, length), LAMBDA a :
    IF a.s.exc # "none" THEN a.s
    ELSE Bind(peel_two(a.s, a.len), LAMBDA b :
      IF b.s.exc # "none" THEN b.s
      ELSE Bind(trial_division(b.s, b.len, 3, factor_maxl(b.len)), LAMBDA c :
        IF c.s.exc # "none" THEN c.s ELSE add_rest(c.s, c.len))))

\* ------------------------------------------------------------------ cfftp
\* ido = length/(l1*ip), as a plain number
stage_ido(length, l1, ip) == NVal(NQuot(length, NMul(l1, ip)))

\* twsize without the ip entries of the factors above 11
RECURSIVE cfftp_twsize_loop_stages_only(_, _, _, _, _)
cfftp_twsize_loop_stages_only(length, fct, k, l1, twsize) ==
  IF k > Len(fct) \/ twsize >= Sat THEN twsize
  ELSE LET ip == fct[k]
           ido == stage_ido(length, l1, ip)
       IN cfftp_twsize_loop_stages_only(
            length, fct, k + 1, NMul(l1, ip),
            SatAdd(twsize, SatMul(ip - 1, ido - 1)))

\* cfftp::twsize; a sum that has reached Sat stays there
RECURSIVE cfftp_twsize_loop(_, _, _, _, _)
cfftp_twsize_loop(length, fct, k, l1, twsize) ==
  IF k > Len(fct) \/ twsize >= Sat THEN twsize
  ELSE LET ip == fct[k]
           ido == stage_ido(length, l1, ip)
           t1 == SatAdd(twsize, SatMul(ip - 1, ido - 1))
           t2 == IF ip > 11 THEN SatAdd(t1, ip) ELSE t1
       IN cfftp_twsize_loop(length, fct, k + 1, NMul(l1, ip), t2)

cfftp_twsize(length, fct) == cfftp_twsize_loop(length, fct, 1, ToNum(1), 0)

\* sincos_2pibyn(n, half): its table is an arr<double>(2*n)
sincos_ctor(n2, al, a) == arr_ctor(n2, al, a)

\* cfftp::comp_twiddle, the slices: per factor the offset of tw in mem, the
\* number of entries written through tw, and the offset of tws (-1: the
\* pointer is left unassigned); done holds the slices of the k-1 factors
\* before fct[k], and the loop ends when every factor has its slice
RECURSIVE cfftp_slices(_, _, _, _, _, _)
cfftp_slices(length, fct, k, l1, memofs, done) ==
  IF Len(done) >= Len(fct) THEN done
  ELSE LET ip == fct[k]
           ido == stage_ido(length, l1, ip)
           twlen == SatMul(ip - 1, ido - 1)
           ofs2 == SatAdd(memofs, twlen)
           ofs3 == IF ip > 11 THEN SatAdd(ofs2, ip) ELSE ofs2
           slice == [fct |-> ip, l1 |-> NVal(l1), ido |-> ido, tw |-> memofs,
                     twlen |-> twlen, tws |-> IF ip > 11 THEN ofs2 ELSE -1,
                     twslen |-> IF ip > 11 THEN ip ELSE 0]
       IN cfftp_slices(length, fct, k + 1, NMul(l1, ip), ofs3,
                       Append(done, slice))

\* cfftp::comp_twiddle, the indices stored through fct[k].tw and fct[k].tws:
\* tw[(j-1)*(ido-1)+i-1] for j in 1..ip-1, i in 1..ido-1, and tws[j] for
\* j in 0..ip-1
cfftp_tw_stores(ip, ido) ==
  {(j - 1) * (ido - 1) + i - 1 : j \in 1..(ip - 1), i \in 1..(ido - 1)}
cfftp_tws_stores(ip) == {j : j \in 0..(ip - 1)}

\* the number of stores a slice list makes into mem
RECURSIVE slices_written(_)
slices_written(sl) ==
  IF sl = <<>> THEN 0
  ELSE SatAdd(SatAdd(sl[1].twlen, sl[1].twslen), slices_written(Tail(sl)))

\* cfftp::comp_twiddle: builds the trig table (which may throw), then stores
\* through mem.data(); a store through a null mem is recorded in nullidx
cfftp_comp_twiddle(length, fct, mem, al, a) ==
  Bind(sincos_ctor(SatMul(2, NVal(length)), al, a), LAMBDA twid :
    IF twid.exc # "none"
    THEN [exc |-> twid.exc, na |-> twid.na, slices |-> <<>>, nullidx |-> FALSE]
    ELSE Bind(cfftp_slices(length, fct, 1, ToNum(1), 0, <<>>), LAMBDA sl :
           [exc |-> "none", na |-> twid.na, slices |-> sl,
            nullidx |-> mem.null /\ slices_written(sl) > 0]))

\* ----------------------------------------------------------------- values
\* A buffer is a function on 0..n-1.  Each element is a record: k is its
\* kind, v its value, st the number of butterfly stages it went through, sc
\* the sequence of the scale arguments (fact, fct) it was multiplied by, in
\* order, each with the number of stages the element had gone through then.  Kind "num":
\* v is the number the code computes, a pair <<re, im>> of integers in a
\* complex buffer and an integer in a real one; the arithmetic of the code
\* is exact on these in the twiddle-free stages of radix 2 and 4.  Kind "x":
\* the result of any other stage (v is not tracked and kept zero).  Kind
\* "uninit": storage never written; "garbage": computed from such storage.
Elem(k, v, st, sc) == [k |-> k, v |-> v, st |-> st, sc |-> sc]
CZero == <<0, 0>>
RZero == CZero[1]
Uninit(zero) == Elem("uninit", zero, 0, <<>>)

Buf(n, e) == [i \in 0..(n - 1) |-> e]

\* cmplx arithmetic
CAdd(a, b) == <<a[1] + b[1], a[2] + b[2]>>
CSub(a, b) == <<a[1] - b[1], a[2] - b[2]>>
\* ROT90: (r, i) -> (-i, r); ROTM90: (r, i) -> (i, -r)
ROT90(a) == <<-a[2], a[1]>>
ROTM90(a) == <<a[2], -a[1]>>
CScale(a, f) == <<a[1] * f, a[2] * f>>

\* c[i] * fact on an element of a complex buffer, and of a real one
CScaleElem(e, fact) ==
  [e EXCEPT !.v = CScale(@, fact), !.sc = Append(@, <<fact, e.st>>)]
RScaleElem(e, fact) ==
  [e EXCEPT !.v = @ * fact, !.sc = Append(@, <<fact, e.st>>)]

\* the element a stage without exact arithmetic writes, from its source
StageOut(src, zero) ==
  LET bad == \E i \in DOMAIN src : src[i].k \in {"uninit", "garbage"}
      scs == {src[i].sc : i \in DOMAIN src}
  IN Elem(IF bad THEN "garbage" ELSE "x", zero, src[0].st + 1,
          IF Cardinality(scs) = 1 THEN src[0].sc ELSE <<<<-1, -1>>>>)

\* the buffer such a stage fills, and the work space of a generic stage
StageBuf(src, zero) ==
  LET e == StageOut(src, zero) IN [idx \in DOMAIN src |-> e]
WorkBuf(src, zero) ==
  LET e == [StageOut(src, zero) EXCEPT !.st = src[0].st]
  IN [idx \in DOMAIN src |-> e]

AllNum(src) == \A i \in DOMAIN src : src[i].k = "num"

\* -------------------------------------------------- cfftp: the butterflies
\* CH(a,b,c) = ch[a+ido*(b+l1*c)], CC(a,b,c) = cc[a+ido*(b+cdim*c)]
\* pass2, branch ido==1: CH(0,k,0) = CC(0,0,k)+CC(0,1,k),
\*                        CH(0,k,1) = CC(0,0,k)-CC(0,1,k)
pass2(bwd, ido, l1, cc) ==
  IF ido = 1 /\ AllNum(cc)
  THEN [idx \in DOMAIN cc |->
          LET k == idx % l1
              j == idx \div l1
              c0 == cc[0 + 2 * k].v
              c1 == cc[1 + 2 * k].v
          IN Elem("num", IF j = 0 THEN CAdd(c0, c1) ELSE CSub(c0, c1),
                  cc[0].st + 1, cc[0].sc)]
  ELSE StageBuf(cc, CZero)

\* pass4 with the rotations of the two directions exchanged
pass4_swapped_rotation(bwd, ido, l1, cc) ==
  IF ido = 1 /\ AllNum(cc)
  THEN [idx \in DOMAIN cc |->
          LET k == idx % l1
              j == idx \div l1
              t2 == CAdd(cc[0 + 4 * k].v, cc[2 + 4 * k].v)
              t1 == CSub(cc[0 + 4 * k].v, cc[2 + 4 * k].v)
              t3 == CAdd(cc[1 + 4 * k].v, cc[3 + 4 * k].v)
              t4a == CSub(cc[1 + 4 * k].v, cc[3 + 4 * k].v)
              t4 == IF bwd THEN ROTM90(t4a) ELSE ROT90(t4a)
          IN Elem("num",
                  CASE j = 0 -> CAdd(t2, t3)
                    [] j = 2 -> CSub(t2, t3)
                    [] j = 1 -> CAdd(t1, t4)
                    [] j = 3 -> CSub(t1, t4),
                  cc[0].st + 1, cc[0].sc)]
  ELSE StageBuf(cc, CZero)

\* pass4, branch ido==1
pass4(bwd, ido, l1, cc) ==
  IF ido = 1 /\ AllNum(cc)
  THEN [idx \in DOMAIN cc |->
          LET k == idx % l1
              j == idx \div l1
              t2 == CAdd(cc[0 + 4 * k].v, cc[2 + 4 * k].v)
              t1 == CSub(cc[0 + 4 * k].v, cc[2 + 4 * k].v)
              t3 == CAdd(cc[1 + 4 * k].v, cc[3 + 4 * k].v)
              t4a == CSub(cc[1 + 4 * k].v, cc[3 + 4 * k].v)
              t4 == IF bwd THEN ROT90(t4a) ELSE ROTM90(t4a)
          IN Elem("num",
                  CASE j = 0 -> CAdd(t2, t3)
                    [] j = 2 -> CSub(t2, t3)
                    [] j = 1 -> CAdd(t1, t4)
                    [] j = 3 -> CSub(t1, t4),
                  cc[0].st + 1, cc[0].sc)]
  ELSE StageBuf(cc, CZero)

\* pass3, pass5, pass7, pass11: every output is computed with irrational
\* constants or twiddles
pass_odd(bwd, ip, ido, l1, cc) == StageBuf(cc, CZero)

\* passg leaves its result in cc (through CX) and uses ch as work space
passg_result(bwd, ido, ip, l1, cc) == StageBuf(cc, CZero)
passg_work(bwd, ido, ip, l1, cc) ==
  WorkBuf(cc, CZero)

\* one iteration of the loop of pass_all.  s: c and ch are the two buffers,
\* p1 names the one the pointer p1 designates, l1 the product so far, trace
\* the stages run
pass_all_stage(bwd, length, ip, s) ==
  LET l2 == ip * s.l1
      ido == length \div l2
      src == IF s.p1 = "c" THEN s.c ELSE s.ch
      p2 == IF s.p1 = "c" THEN "ch" ELSE "c"
      rec == [ip |-> ip, l1 |-> s.l1, ido |-> ido, src |-> s.p1,
              generic |-> ip \notin {2, 3, 4, 5, 7, 11}]
  IN IF ip \in {2, 3, 4, 5, 7, 11}
     THEN Bind(CASE ip = 4 -> pass4(bwd, ido, s.l1, src)
                 [] ip = 2 -> pass2(bwd, ido, s.l1, src)
                 [] OTHER -> pass_odd(bwd, ip, ido, s.l1, src),
               LAMBDA out :
                 [c |-> IF p2 = "c" THEN out ELSE s.c,
                  ch |-> IF p2 = "ch" THEN out ELSE s.ch,
                  p1 |-> p2, l1 |-> l2, trace |-> Append(s.trace, rec)])
     ELSE Bind(passg_result(bwd, ido, ip, s.l1, src), LAMBDA res :
            Bind(passg_work(bwd, ido, ip, s.l1, src), LAMBDA wrk :
              [c |-> IF s.p1 = "c" THEN res ELSE wrk,
               ch |-> IF s.p1 = "ch" THEN res ELSE wrk,
               p1 |-> s.p1, l1 |-> l2, trace |-> Append(s.trace, rec)]))

RECURSIVE pass_all_loop(_, _, _, _, _)
pass_all_loop(bwd, length, fct, k1, s) ==
  IF k1 > Len(fct) THEN s
  ELSE pass_all_loop(bwd, length, fct, k1 + 1,
                     pass_all_stage(bwd, length, fct[k1], s))

\* the end of pass_all: copy back and scale
pass_all_finish(length, s, fact) ==
  IF s.p1 # "c"
  THEN IF fact # 1
       THEN [c |-> [i \in DOMAIN s.c |-> CScaleElem(s.ch[i], fact)], nmul |-> length]
       ELSE [c |-> s.ch, nmul |-> 0]
  ELSE IF fact # 1
       THEN [c |-> [i \in DOMAIN s.c |-> CScaleElem(s.c[i], fact)], nmul |-> length]
       ELSE [c |-> s.c, nmul |-> 0]

\* pass_all returning at once for length 1, without the multiplication
pass_all_length1_unscaled(bwd, p, c, fact, al, a) ==
  IF p.n = 1
  THEN [c |-> c, exc |-> "none", na |-> a, trace |-> <<>>, nmul |-> 0]
  ELSE Bind(arr_ctor(p.n, al, a), LAMBDA ch :
         IF ch.exc # "none"
         THEN [c |-> c, exc |-> ch.exc, na |-> ch.na, trace |-> <<>>, nmul |-> 0]
         ELSE Bind(pass_all_loop(bwd, p.n, p.fct, 1,
                     [c |-> c, ch |-> Buf(p.n, Uninit(CZero)), p1 |-> "c",
                      l1 |-> 1, trace |-> <<>>]),
                   LAMBDA s :
                     Bind(pass_all_finish(p.n, s, fact), LAMBDA f :
                       [c |-> f.c, exc |-> "none", na |-> ch.na,
                        trace |-> s.trace, nmul |-> f.nmul])))

\* cfftp::pass_all<bwd>(c, fact) on the plan p.  The result: the buffer c,
\* the exception thrown, the allocations made, the stages run, the number
\* of multiplications by fact
pass_all(bwd, p, c, fact, al, a) ==
  IF p.n = 1
  THEN [c |-> [c EXCEPT ![0] = CScaleElem(@, fact)], exc |-> "none", na |-> a,
        trace |-> <<>>, nmul |-> 1]
  ELSE Bind(arr_ctor(p.n, al, a), LAMBDA ch :
         IF ch.exc # "none"
         THEN [c |-> c, exc |-> ch.exc, na |-> ch.na, trace |-> <<>>, nmul |-> 0]
         ELSE Bind(pass_all_loop(bwd, p.n, p.fct, 1,
                     [c |-> c, ch |-> Buf(p.n, Uninit(CZero)), p1 |-> "c",
                      l1 |-> 1, trace |-> <<>>]),
                   LAMBDA s :
                     Bind(pass_all_finish(p.n, s, fact), LAMBDA f :
                       [c |-> f.c, exc |-> "none", na |-> ch.na,
                        trace |-> s.trace, nmul |-> f.nmul])))

\* cfftp::forward, cfftp::backward
cfftp_forward(p, c, fct, al, a) == pass_all(FALSE, p, c, fct, al, a)
cfftp_backward(p, c, fct, al, a) == pass_all(TRUE, p, c, fct, al, a)

\* cfftp::cfftp(length_).  The result: the object, the exception thrown, the
\* allocations made, whether a null mem was stored through, the calls made
cfftp_new(length) ==
  [length |-> length, n |-> NVal(length), nfct |-> 0, fct |-> <<>>,
   mem |-> arr_empty, slices |-> <<>>]

\* the constructor without the test of length==0
cfftp_ctor_unchecked(length, al, a) ==
  LET p0 == cfftp_new(length)
      none == [obj |-> p0, exc |-> "none", na |-> a, nullidx |-> FALSE,
               calls |-> <<>>]
      cl == <<<<"factorize", NVal(length)>>>>
  IN IF NIsOne(length) THEN none
     ELSE Bind(cfftp_factorize(length), LAMBDA f :
       IF f.exc # "none"
       THEN [none EXCEPT !.exc = f.exc, !.calls = cl,
                         !.obj = [p0 EXCEPT !.nfct = f.nfct, !.fct = f.fct]]
       ELSE Bind(arr_resize(p0.mem, cfftp_twsize(length, f.fct), al, a), LAMBDA m :
              Bind(cfftp_comp_twiddle(length, f.fct, m.arr, al, m.na), LAMBDA t :
                [obj |-> [p0 EXCEPT !.nfct = f.nfct, !.fct = f.fct,
                                    !.mem = m.arr, !.slices = t.slices],
                 exc |-> t.exc, na |-> t.na, nullidx |-> t.nullidx,
                 calls |-> cl])))

cfftp_ctor(length, al, a) ==
  LET p0 == cfftp_new(length)
      none == [obj |-> p0, exc |-> "none", na |-> a, nullidx |-> FALSE,
               calls |-> <<>>]
      cl == <<<<"factorize", NVal(length)>>>>
  IN IF NIsZero(length) THEN [none EXCEPT !.exc = "zero length FFT requested"]
     ELSE IF NIsOne(length) THEN none
     ELSE Bind(cfftp_factorize(length), LAMBDA f :
       IF f.exc # "none"
       THEN [none EXCEPT !.exc = f.exc, !.calls = cl,
                         !.obj = [p0 EXCEPT !.nfct = f.nfct, !.fct = f.fct]]
       ELSE Bind(arr_resize(p0.mem, cfftp_twsize(length, f.fct), al, a), LAMBDA m :
              Bind(cfftp_comp_twiddle(length, f.fct, m.arr, al, m.na), LAMBDA t :
                [obj |-> [p0 EXCEPT !.nfct = f.nfct, !.fct = f.fct,
                                    !.mem = m.arr, !.slices = t.slices],
                 exc |-> t.exc, na |-> t.na, nullidx |-> t.nullidx,
                 calls |-> cl])))

\* ------------------------------------------------------------------ rfftp
\* rfftp::twsize
RECURSIVE rfftp_twsize_loop(_, _, _, _, _)
rfftp_twsize_loop(length, fct, k, l1, twsz) ==
  IF k > Len(fct) \/ twsz >= Sat THEN twsz
  ELSE LET ip == fct[k]
           ido == stage_ido(length, l1, ip)
           t1 == SatAdd(twsz, SatMul(ip - 1, ido - 1))
           t2 == IF ip > 5 THEN SatAdd(t1, 2 * ip) ELSE t1
       IN rfftp_twsize_loop(length, fct, k + 1, NMul(l1, ip), t2)

rfftp_twsize(length, fct) == rfftp_twsize_loop(length, fct, 1, ToNum(1), 0)

\* rfftp::comp_twiddle, the slices: as for cfftp, with tw = -1 for the last
\* factor, whose pointer is left unassigned; twlen and twslen count the
\* stores made through tw and tws
RECURSIVE rfftp_slices(_, _, _, _, _, _)
rfftp_slices(length, fct, k, l1, ptr, done) ==
  IF Len(done) >= Len(fct) THEN done
  ELSE LET ip == fct[k]
           ido == stage_ido(length, l1, ip)
           notlast == k < Len(fct)
           ptr2 == IF notlast THEN SatAdd(ptr, SatMul(ip - 1, ido - 1)) ELSE ptr
           ptr3 == IF ip > 5 THEN SatAdd(ptr2, 2 * ip) ELSE ptr2
           slice == [fct |-> ip, l1 |-> NVal(l1), ido |-> ido,
                     tw |-> IF notlast THEN ptr ELSE -1,
                     twlen |-> IF notlast
                               THEN SatMul(ip - 1, 2 * ((ido - 1) \div 2))
                               ELSE 0,
                     tws |-> IF ip > 5 THEN ptr2 ELSE -1,
                     twslen |-> IF ip > 5 THEN 2 + 4 * (ip \div 2) ELSE 0]
       IN rfftp_slices(length, fct, k + 1, NMul(l1, ip), ptr3,
                       Append(done, slice))

\* rfftp::comp_twiddle, the indices stored through fct[k].tw and fct[k].tws:
\* tw[(j-1)*(ido-1)+2*i-2] and tw[(j-1)*(ido-1)+2*i-1] for j in 1..ip-1,
\* i in 1..(ido-1)/2; tws[0], tws[1] and tws[2*i], tws[2*i+1], tws[2*(ip-i)],
\* tws[2*(ip-i)+1] for i in 1..(ip>>1)
rfftp_tw_stores(ip, ido) ==
  UNION {{(j - 1) * (ido - 1) + 2 * i - 2, (j - 1) * (ido - 1) + 2 * i - 1} :
           j \in 1..(ip - 1), i \in 1..((ido - 1) \div 2)}

\* the stores to tws without those to the slots of the entries ip-i
rfftp_tws_stores_unmirrored(ip) ==
  {0, 1} \cup UNION {{2 * i, 2 * i + 1} : i \in 1..(ip \div 2)}

rfftp_tws_stores(ip) ==
  {0, 1} \cup UNION {{2 * i, 2 * i + 1, 2 * (ip - i), 2 * (ip - i) + 1} :
                       i \in 1..(ip \div 2)}

\* rfftp::comp_twiddle
rfftp_comp_twiddle(length, fct, mem, al, a) ==
  Bind(sincos_ctor(SatMul(2, NVal(length)), al, a), LAMBDA twid :
    IF twid.exc # "none"
    THEN [exc |-> twid.exc, na |-> twid.na, slices |-> <<>>, nullidx |-> FALSE]
    ELSE Bind(rfftp_slices(length, fct, 1, ToNum(1), 0, <<>>), LAMBDA sl :
           [exc |-> "none", na |-> twid.na, slices |-> sl,
            nullidx |-> mem.null /\ slices_written(sl) > 0]))

\* rfftp::rfftp(length_)
rfftp_ctor(length, al, a) ==
  LET p0 == cfftp_new(length)
      none == [obj |-> p0, exc |-> "none", na |-> a, nullidx |-> FALSE,
               calls |-> <<>>]
      cl == <<<<"factorize", NVal(length)>>>>
  IN IF NIsZero(length) THEN [none EXCEPT !.exc = "zero_sized FFT"]
     ELSE IF NIsOne(length) THEN none
     ELSE Bind(rfftp_factorize(length), LAMBDA f :
       IF f.exc # "none"
       THEN [none EXCEPT !.exc = f.exc, !.calls = cl,
                         !.obj = [p0 EXCEPT !.nfct = f.nfct, !.fct = f.fct]]
       ELSE Bind(arr_resize(p0.mem, rfftp_twsize(length, f.fct), al, a), LAMBDA m :
              Bind(rfftp_comp_twiddle(length, f.fct, m.arr, al, m.na), LAMBDA t :
                [obj |-> [p0 EXCEPT !.nfct = f.nfct, !.fct = f.fct,
                                    !.mem = m.arr, !.slices = t.slices],
                 exc |-> t.exc, na |-> t.na, nullidx |-> t.nullidx,
                 calls |-> cl])))

\* radf: CC(a,b,c) = cc[a+ido*(b+l1*c)], CH(a,b,c) = ch[a+ido*(b+cdim*c)]
\* radf2 with ido == 1: PM(CH(0,0,k),CH(ido-1,1,k),CC(0,k,0),CC(0,k,1))
radf2(ido, l1, cc) ==
  IF ido = 1 /\ AllNum(cc)
  THEN [idx \in DOMAIN cc |->
          LET k == idx \div 2
              j == idx % 2
              c0 == cc[k].v
              c1 == cc[k + l1].v
          IN Elem("num", IF j = 0 THEN c0 + c1 ELSE c0 - c1,
                  cc[0].st + 1, cc[0].sc)]
  ELSE StageBuf(cc, RZero)

\* radf4 with ido == 1
radf4(ido, l1, cc) ==
  IF ido = 1 /\ AllNum(cc)
  THEN [idx \in DOMAIN cc |->
          LET k == idx \div 4
              j == idx % 4
              tr1 == cc[k + l1 * 3].v + cc[k + l1 * 1].v
              tr2 == cc[k + l1 * 0].v + cc[k + l1 * 2].v
          IN Elem("num",
                  CASE j = 2 -> cc[k + l1 * 3].v - cc[k + l1 * 1].v
                    [] j = 1 -> cc[k + l1 * 0].v - cc[k + l1 * 2].v
                    [] j = 0 -> tr2 + tr1
                    [] j = 3 -> tr2 - tr1,
                  cc[0].st + 1, cc[0].sc)]
  ELSE StageBuf(cc, RZero)

\* radf3, radf5: irrational constants
radf_odd(ip, ido, l1, cc) == StageBuf(cc, RZero)

\* radfg leaves its result in cc and uses ch as work space
radfg_result(ido, ip, l1, cc) == StageBuf(cc, RZero)
radfg_work(ido, ip, l1, cc) ==
  WorkBuf(cc, RZero)

\* radb: CC(a,b,c) = cc[a+ido*(b+cdim*c)], CH(a,b,c) = ch[a+ido*(b+l1*c)]
\* radb2 with ido == 1: PM(CH(0,k,0),CH(0,k,1),CC(0,0,k),CC(ido-1,1,k))
radb2(ido, l1, cc) ==
  IF ido = 1 /\ AllNum(cc)
  THEN [idx \in DOMAIN cc |->
          LET k == idx % l1
              j == idx \div l1
              c0 == cc[0 + 2 * k].v
              c1 == cc[1 + 2 * k].v
          IN Elem("num", IF j = 0 THEN c0 + c1 ELSE c0 - c1,
                  cc[0].st + 1, cc[0].sc)]
  ELSE StageBuf(cc, RZero)

\* radb4 with ido == 1
radb4(ido, l1, cc) ==
  IF ido = 1 /\ AllNum(cc)
  THEN [idx \in DOMAIN cc |->
          LET k == idx % l1
              j == idx \div l1
              tr2 == cc[0 + 4 * k].v + cc[3 + 4 * k].v
              tr1 == cc[0 + 4 * k].v - cc[3 + 4 * k].v
              tr3 == 2 * cc[1 + 4 * k].v
              tr4 == 2 * cc[2 + 4 * k].v
          IN Elem("num",
                  CASE j = 0 -> tr2 + tr3
                    [] j = 2 -> tr2 - tr3
                    [] j = 3 -> tr1 + tr4
                    [] j = 1 -> tr1 - tr4,
                  cc[0].st + 1, cc[0].sc)]
  ELSE StageBuf(cc, RZero)

\* radb3, radb5, radbg: the result is in ch
radb_odd(ip, ido, l1, cc) == StageBuf(cc, RZero)

\* radbg uses cc as work space (through C1 and C2)
radbg_work(ido, ip, l1, cc) == WorkBuf(cc, RZero)

\* copy_and_norm scaling only on the way back from the scratch buffer
copy_and_norm_copy_only(s, n, fct) ==
  IF s.p1 # "c"
  THEN IF fct # 1
       THEN [c |-> [i \in DOMAIN s.c |-> RScaleElem(s.ch[i], fct)], nmul |-> n]
       ELSE [c |-> s.ch, nmul |-> 0]
  ELSE [c |-> s.c, nmul |-> 0]

\* copy_and_norm(c, p1, n, fct)
copy_and_norm(s, n, fct) ==
  IF s.p1 # "c"
  THEN IF fct # 1
       THEN [c |-> [i \in DOMAIN s.c |-> RScaleElem(s.ch[i], fct)], nmul |-> n]
       ELSE [c |-> s.ch, nmul |-> 0]
  ELSE IF fct # 1
       THEN [c |-> [i \in DOMAIN s.c |-> RScaleElem(s.c[i], fct)], nmul |-> n]
       ELSE [c |-> s.c, nmul |-> 0]

\* the iteration of rfftp::forward with one swap after radfg
rfftp_forward_stage_one_swap(n, ip, s) ==
  LET ido == n \div s.l1
      l1 == s.l1 \div ip
      src == IF s.p1 = "c" THEN s.c ELSE s.ch
      p2 == IF s.p1 = "c" THEN "ch" ELSE "c"
      rec == [ip |-> ip, l1 |-> l1, ido |-> ido, src |-> s.p1,
              generic |-> ip \notin {2, 3, 4, 5}]
  IN IF ip \in {2, 3, 4, 5}
     THEN Bind(CASE ip = 4 -> radf4(ido, l1, src)
                 [] ip = 2 -> radf2(ido, l1, src)
                 [] OTHER -> radf_odd(ip, ido, l1, src),
               LAMBDA out :
                 [c |-> IF p2 = "c" THEN out ELSE s.c,
                  ch |-> IF p2 = "ch" THEN out ELSE s.ch,
                  p1 |-> p2, l1 |-> l1, trace |-> Append(s.trace, rec)])
     ELSE Bind(radfg_result(ido, ip, l1, src), LAMBDA res :
            Bind(radfg_work(ido, ip, l1, src), LAMBDA wrk :
              [c |-> IF s.p1 = "c" THEN res ELSE wrk,
               ch |-> IF s.p1 = "ch" THEN res ELSE wrk,
               p1 |-> p2, l1 |-> l1, trace |-> Append(s.trace, rec)]))

\* one iteration of the loop of rfftp::forward; here s.l1 is l1 before the
\* division by ip
rfftp_forward_stage(n, ip, s) ==
  LET ido == n \div s.l1
      l1 == s.l1 \div ip
      src == IF s.p1 = "c" THEN s.c ELSE s.ch
      p2 == IF s.p1 = "c" THEN "ch" ELSE "c"
      rec == [ip |-> ip, l1 |-> l1, ido |-> ido, src |-> s.p1,
              generic |-> ip \notin {2, 3, 4, 5}]
  IN IF ip \in {2, 3, 4, 5}
     THEN Bind(CASE ip = 4 -> radf4(ido, l1, src)
                 [] ip = 2 -> radf2(ido, l1, src)
                 [] OTHER -> radf_odd(ip, ido, l1, src),
               LAMBDA out :
                 [c |-> IF p2 = "c" THEN out ELSE s.c,
                  ch |-> IF p2 = "ch" THEN out ELSE s.ch,
                  p1 |-> p2, l1 |-> l1, trace |-> Append(s.trace, rec)])
     ELSE Bind(radfg_result(ido, ip, l1, src), LAMBDA res :
            Bind(radfg_work(ido, ip, l1, src), LAMBDA wrk :
              [c |-> IF s.p1 = "c" THEN res ELSE wrk,
               ch |-> IF s.p1 = "ch" THEN res ELSE wrk,
               p1 |-> s.p1, l1 |-> l1, trace |-> Append(s.trace, rec)]))

\* the loop of rfftp::forward taking the factors from the first one on
RECURSIVE rfftp_forward_loop_first_to_last(_, _, _, _)
rfftp_forward_loop_first_to_last(n, fct, k1, s) ==
  IF k1 >= Len(fct) THEN s
  ELSE rfftp_forward_loop_first_to_last(
         n, fct, k1 + 1, rfftp_forward_stage(n, fct[k1 + 1], s))

\* for (k1=0; k1<nf; ++k1) { k=nf-k1-1; ... }
RECURSIVE rfftp_forward_loop(_, _, _, _)
rfftp_forward_loop(n, fct, k1, s) ==
  IF k1 >= Len(fct) THEN s
  ELSE rfftp_forward_loop(n, fct, k1 + 1,
                          rfftp_forward_stage(n, fct[Len(fct) - k1], s))

\* rfftp::forward(c, fact)
rfftp_forward(p, c, fact, al, a) ==
  IF p.n = 1
  THEN [c |-> [c EXCEPT ![0] = RScaleElem(@, fact)], exc |-> "none", na |-> a,
        trace |-> <<>>, nmul |-> 1]
  ELSE Bind(arr_ctor(p.n, al, a), LAMBDA ch :
         IF ch.exc # "none"
         THEN [c |-> c, exc |-> ch.exc, na |-> ch.na, trace |-> <<>>, nmul |-> 0]
         ELSE Bind(rfftp_forward_loop(p.n, p.fct, 0,
                     [c |-> c, ch |-> Buf(p.n, Uninit(RZero)), p1 |-> "c",
                      l1 |-> p.n, trace |-> <<>>]),
                   LAMBDA s :
                     Bind(copy_and_norm(s, p.n, fact), LAMBDA f :
                       [c |-> f.c, exc |-> "none", na |-> ch.na,
                        trace |-> s.trace, nmul |-> f.nmul])))

\* one iteration of the loop of rfftp::backward
rfftp_backward_stage(n, ip, s) ==
  LET ido == n \div (ip * s.l1)
      src == IF s.p1 = "c" THEN s.c ELSE s.ch
      p2 == IF s.p1 = "c" THEN "ch" ELSE "c"
      rec == [ip |-> ip, l1 |-> s.l1, ido |-> ido, src |-> s.p1,
              generic |-> ip \notin {2, 3, 4, 5}]
  IN Bind(CASE ip = 4 -> radb4(ido, s.l1, src)
            [] ip = 2 -> radb2(ido, s.l1, src)
            [] OTHER -> radb_odd(ip, ido, s.l1, src),
          LAMBDA out :
            Bind(IF ip \in {2, 3, 4, 5} THEN src
                 ELSE radbg_work(ido, ip, s.l1, src),
                 LAMBDA cc :
              [c |-> IF p2 = "c" THEN out ELSE cc,
               ch |-> IF p2 = "ch" THEN out ELSE cc,
               p1 |-> p2, l1 |-> s.l1 * ip, trace |-> Append(s.trace, rec)]))

\* the loop of rfftp::backward taking the factors from the last one on
RECURSIVE rfftp_backward_loop_last_to_first(_, _, _, _)
rfftp_backward_loop_last_to_first(n, fct, k, s) ==
  IF k > Len(fct) THEN s
  ELSE rfftp_backward_loop_last_to_first(
         n, fct, k + 1, rfftp_backward_stage(n, fct[Len(fct) + 1 - k], s))

\* for(size_t k=0; k<nf; k++)
RECURSIVE rfftp_backward_loop(_, _, _, _)
rfftp_backward_loop(n, fct, k, s) ==
  IF k > Len(fct) THEN s
  ELSE rfftp_backward_loop(n, fct, k + 1, rfftp_backward_stage(n, fct[k], s))

\* rfftp::backward(c, fact)
rfftp_backward(p, c, fact, al, a) ==
  IF p.n = 1
  THEN [c |-> [c EXCEPT ![0] = RScaleElem(@, fact)], exc |-> "none", na |-> a,
        trace |-> <<>>, nmul |-> 1]
  ELSE Bind(arr_ctor(p.n, al, a), LAMBDA ch :
         IF ch.exc # "none"
         THEN [c |-> c, exc |-> ch.exc, na |-> ch.na, trace |-> <<>>, nmul |-> 0]
         ELSE Bind(rfftp_backward_loop(p.n, p.fct, 1,
                     [c |-> c, ch |-> Buf(p.n, Uninit(RZero)), p1 |-> "c",
                      l1 |-> 1, trace |-> <<>>]),
                   LAMBDA s :
                     Bind(copy_and_norm(s, p.n, fact), LAMBDA f :
                       [c |-> f.c, exc |-> "none", na |-> ch.na,
                        trace |-> s.trace, nmul |-> f.nmul])))

\* ---------------------------------------------------------------- fftblue
Tainted(e) == e.k \in {"uninit", "garbage"}

\* the product of an element with a table entry (b_k, B_k): not tracked
TableMul(e) == Elem(IF Tainted(e) THEN "garbage" ELSE "x", CZero, e.st, e.sc)

\* akf[m] = 0.*c[0]
ZeroOf(e) == Elem(IF Tainted(e) THEN "garbage" ELSE "num", CZero, e.st, e.sc)

\* fft with akf cut off after the n elements taken from c
fft_akf_unpadded(b, c) == [m \in 0..(b.n - 1) |-> TableMul(c[m])]

\* fftblue::fft: arr<T> akf(2*n2) filled from c and bk, then akf[m]=0.*c[0]
\* for the slots from 2*n on
fft_akf(b, c) ==
  [m \in 0..(b.n2 - 1) |-> IF m < b.n THEN TableMul(c[m]) ELSE ZeroOf(c[0])]

\* fftblue::fft<bwd>(c, fct) on the plan b; c is taken as n complex elements.
\* nested lists the calls made on the nested plan with their scale
fftblue_fft(bwd, b, c, fct, al, a) ==
  LET fail(e, na, nest) == [c |-> c, exc |-> e, na |-> na, nmul |-> 0,
                            nested |-> nest, trace |-> <<>>]
      akf1 == fft_akf(b, c)
      call1 == <<[dir |-> "forward", fct |-> 1]>>
      call2 == call1 \o <<[dir |-> "backward", fct |-> 1]>>
  IN Bind(arr_ctor(2 * b.n2, al, a), LAMBDA akf0 :
       IF akf0.exc # "none" THEN fail(akf0.exc, akf0.na, <<>>)
       ELSE Bind(cfftp_forward(b.plan, akf1, 1, al, akf0.na), LAMBDA r1 :
              IF r1.exc # "none" THEN fail(r1.exc, r1.na, call1)
              ELSE Bind(cfftp_backward(
                          b.plan, [m \in DOMAIN r1.c |-> TableMul(r1.c[m])],
                          1, al, r1.na),
                        LAMBDA r2 :
                          IF r2.exc # "none" THEN fail(r2.exc, r2.na, call2)
                          ELSE [c |-> [m \in DOMAIN c |->
                                         CScaleElem(TableMul(r2.c[m]), fct)],
                                exc |-> "none", na |-> r2.na, nmul |-> b.n,
                                nested |-> call2,
                                trace |-> r1.trace \o r2.trace])))

\* fftblue::fftblue(length), length >= 1
fftblue_ctor(n, al, a) ==
  Bind(cfftp_ctor(ToNum(good_size(n * 2 - 1)), al, a), LAMBDA plan :
    LET n2 == good_size(n * 2 - 1)
        cl == <<<<"good_size", n * 2 - 1>>>> \o plan.calls
        obj0 == [n |-> n, n2 |-> n2, plan |-> plan.obj, mem |-> arr_empty]
        fail(e, na) == [obj |-> obj0, exc |-> e, na |-> na,
                        nullidx |-> plan.nullidx, calls |-> cl,
                        nested |-> <<>>]
    IN IF plan.exc # "none" THEN fail(plan.exc, plan.na)
       ELSE Bind(arr_ctor(2 * (n + n2), al, plan.na), LAMBDA mem :
              IF mem.exc # "none" THEN fail(mem.exc, mem.na)
              ELSE Bind(sincos_ctor(2 * (2 * n), al, mem.na), LAMBDA tmp :
                     IF tmp.exc # "none" THEN fail(tmp.exc, tmp.na)
                     ELSE Bind(cfftp_forward(
                                 plan.obj, Buf(n2, Elem("x", CZero, 0, <<>>)),
                                 1, al, tmp.na),
                               LAMBDA f :
                                 [obj |-> [obj0 EXCEPT !.mem = mem.arr],
                                  exc |-> f.exc, na |-> f.na,
                                  nullidx |-> plan.nullidx, calls |-> cl,
                                  nested |-> <<[dir |-> "forward",
                                                fct |-> 1]>>]))))

\* cmplx<T>* view of 2n reals, and back
AsComplex(t, n) ==
  [m \in 0..(n - 1) |->
     Elem(IF Tainted(t[2 * m]) \/ Tainted(t[2 * m + 1]) THEN "garbage"
          ELSE IF t[2 * m].k = "num" /\ t[2 * m + 1].k = "num" THEN "num"
          ELSE "x",
          <<t[2 * m].v, t[2 * m + 1].v>>, t[2 * m].st, t[2 * m].sc)]
AsReals(c, n) ==
  [i \in 0..(2 * n - 1) |->
     Elem(c[i \div 2].k, c[i \div 2].v[1 + (i % 2)], c[i \div 2].st,
          c[i \div 2].sc)]

\* fftblue::forward_r, the packing: the index of tmp stored in c[slot]
\* (c[0] = tmp[0]; memcpy (c+1, tmp.data()+2, (n-1)*sizeof(T)))
\* forward_r copying the first n reals of tmp (memcpy (c, tmp.data(), ...)),
\* the zero imaginary part of bin 0 included
forward_r_pack_dense(n) == [slot \in 0..(n - 1) |-> slot]

forward_r_pack(n) == [slot \in 0..(n - 1) |-> IF slot = 0 THEN 0 ELSE slot + 1]

\* fftblue::forward_r(c, fct)
fftblue_forward_r(b, c, fct, al, a) ==
  LET tmp1 == [i \in 0..(2 * b.n - 1) |->
                 IF i % 2 = 0 THEN c[i \div 2]
                 ELSE [c[i \div 2] EXCEPT !.v = 0]]
  IN Bind(arr_ctor(2 * b.n, al, a), LAMBDA tmp0 :
       IF tmp0.exc # "none"
       THEN [c |-> c, exc |-> tmp0.exc, na |-> tmp0.na, nmul |-> 0,
             nested |-> <<>>, trace |-> <<>>]
       ELSE Bind(fftblue_fft(FALSE, b, AsComplex(tmp1, b.n), fct, al, tmp0.na),
                 LAMBDA r :
                   IF r.exc # "none" THEN [r EXCEPT !.c = c]
                   ELSE Bind(AsReals(r.c, b.n), LAMBDA tmp2 :
                          [r EXCEPT !.c = [slot \in 0..(b.n - 1) |->
                                            tmp2[forward_r_pack(b.n)[slot]]]])))

\* fftblue::backward_r, the unpacking: for every index of tmp the slot of c
\* it is filled from (-1: filled with c[0]*0.; -2: never written) and
\* whether the value is negated
\* tmp[j] after for (m=2; m<n; m+=2) { tmp[2*n-m]=tmp[m];
\* tmp[2*n-m+1]=-tmp[m+1]; }: iteration m stores to 2n-m (even) and 2n-m+1
\* (odd); it reads indices up to n and stores above n, so it reads what the
\* statements before the loop left in t
backward_r_mirror(t, n, j) ==
  LET m == IF j % 2 = 0 THEN 2 * n - j ELSE 2 * n - j + 1
  IN IF m >= 2 /\ m < n
     THEN IF j % 2 = 0 THEN t[m] ELSE [t[m + 1] EXCEPT !.neg = ~@]
     ELSE t[j]

backward_r_unpack(n) ==
  LET t0 == [i \in 0..(2 * n - 1) |-> [slot |-> -2, neg |-> FALSE]]
      t1 == [t0 EXCEPT ![0] = [slot |-> 0, neg |-> FALSE],
                       ![1] = [slot |-> -1, neg |-> FALSE]]
      t2 == [i \in 0..(2 * n - 1) |->
               IF i >= 2 /\ i <= n THEN [slot |-> i - 1, neg |-> FALSE]
               ELSE t1[i]]
      t3 == IF n % 2 = 0
            THEN [t2 EXCEPT ![n + 1] = [slot |-> -1, neg |-> FALSE]]
            ELSE t2
  IN [j \in 0..(2 * n - 1) |-> backward_r_mirror(t3, n, j)]

\* the final loop of backward_r: c[m] = tmp[2*m]
backward_r_pack(n) == [m \in 0..(n - 1) |-> 2 * m]

\* fftblue::backward_r(c, fct)
fftblue_backward_r(b, c, fct, al, a) ==
  LET u == backward_r_unpack(b.n)
      tmp1 == [i \in 0..(2 * b.n - 1) |->
                 IF u[i].slot = -2 THEN Uninit(RZero)
                 ELSE IF u[i].slot = -1 THEN [c[0] EXCEPT !.v = 0]
                 ELSE IF u[i].neg THEN [c[u[i].slot] EXCEPT !.v = 0 - @]
                 ELSE c[u[i].slot]]
  IN Bind(arr_ctor(2 * b.n, al, a), LAMBDA tmp0 :
       IF tmp0.exc # "none"
       THEN [c |-> c, exc |-> tmp0.exc, na |-> tmp0.na, nmul |-> 0,
             nested |-> <<>>, trace |-> <<>>]
       ELSE Bind(fftblue_fft(TRUE, b, AsComplex(tmp1, b.n), fct, al, tmp0.na),
                 LAMBDA r :
                   IF r.exc # "none" THEN [r EXCEPT !.c = c]
                   ELSE Bind(AsReals(r.c, b.n), LAMBDA tmp2 :
                          [r EXCEPT !.c = [m \in 0..(b.n - 1) |->
                                            tmp2[backward_r_pack(b.n)[m]]]])))

\* fftblue::forward / fftblue::backward
fftblue_forward(b, c, fct, al, a) == fftblue_fft(FALSE, b, c, fct, al, a)
fftblue_backward(b, c, fct, al, a) == fftblue_fft(TRUE, b, c, fct, al, a)

\* ------------------------------------------------- pocketfft_c, pocketfft_r
NoPlan == [length |-> ToNum(0), n |-> 0, nfct |-> 0, fct |-> <<>>,
           mem |-> arr_empty, slices |-> <<>>]

\* the mixed-radix plan for every length
use_packplan_always(length) == [take |-> TRUE, calls |-> <<>>]

\* (length<50) || (largest_prime_factor(length)<=sqrt(length)), with the
\* calls the evaluation makes
use_packplan(length) ==
  IF length < 50 THEN [take |-> TRUE, calls |-> <<>>]
  ELSE [take |-> largest_prime_factor(length) * largest_prime_factor(length)
                   <= length,
        calls |-> <<<<"largest_prime_factor", length>>>>]

\* the comparison without the factor 1.5
use_bluestein_no_fudge(length, half) ==
  [take |-> 2 * 2 * cost_guess10(good_size(2 * length - 1))
              < (3 - half) * cost_guess10(length),
   calls |-> <<<<"cost_guess", length>>, <<"good_size", 2 * length - 1>>,
               <<"cost_guess", good_size(2 * length - 1)>>>>]

\* comp2<comp1 with comp1 = half*cost_guess(length) (half is 2 for the
\* factor 0.5 and 1 for no factor) and comp2 = 2*cost_guess(good_size(
\* 2*length-1))*1.5, in tenths and cleared of the fractions
use_bluestein(length, half) ==
  [take |-> 2 * 3 * cost_guess10(good_size(2 * length - 1))
              < (3 - half) * cost_guess10(length),
   calls |-> <<<<"cost_guess", length>>, <<"good_size", 2 * length - 1>>,
               <<"cost_guess", good_size(2 * length - 1)>>>>]

\* packplan=unique_ptr<cfftp<T0>>(new cfftp<T0>(length)) and
\* packplan=unique_ptr<rfftp<T0>>(new rfftp<T0>(length)); cl: the helper
\* calls made before
MixedPlan(r, length, cl) ==
  [obj |-> [len |-> length, kind |-> "pack", packplan |-> r.obj],
   exc |-> r.exc, na |-> r.na, nullidx |-> r.nullidx,
   calls |-> cl \o r.calls, nested |-> <<>>]
\* blueplan=unique_ptr<fftblue<T0>>(new fftblue<T0>(length))
BluePlan(r, length, cl) ==
  [obj |-> [len |-> length, kind |-> "blue", blueplan |-> r.obj],
   exc |-> r.exc, na |-> r.na, nullidx |-> r.nullidx,
   calls |-> cl \o r.calls, nested |-> r.nested]
\* the plan the constructors choose, "pack" or "blue", with the helper calls
\* the choice made
choose_plan(length, half) ==
  Bind(use_packplan(length), LAMBDA pk :
    IF pk.take THEN [kind |-> "pack", calls |-> pk.calls]
    ELSE Bind(use_bluestein(length, half), LAMBDA bl :
           [kind |-> IF bl.take THEN "blue" ELSE "pack",
            calls |-> pk.calls \o bl.calls]))

\* pocketfft_c::pocketfft_c(length)
pocketfft_c_ctor(length, al, a) ==
  IF length = 0
  THEN [obj |-> [len |-> length, kind |-> "none", packplan |-> NoPlan],
        exc |-> "zero-length FFT requested", na |-> a,
        nullidx |-> FALSE, calls |-> <<>>, nested |-> <<>>]
  ELSE Bind(choose_plan(length, 1), LAMBDA ch :
         IF ch.kind = "pack"
         THEN MixedPlan(cfftp_ctor(ToNum(length), al, a), length, ch.calls)
         ELSE BluePlan(fftblue_ctor(length, al, a), length, ch.calls))

\* pocketfft_r with comp1 = cost_guess(length), as in pocketfft_c
pocketfft_r_ctor_unscaled(length, al, a) ==
  IF length = 0
  THEN [obj |-> [len |-> length, kind |-> "none", packplan |-> NoPlan],
        exc |-> "zero-length FFT requested", na |-> a,
        nullidx |-> FALSE, calls |-> <<>>, nested |-> <<>>]
  ELSE Bind(choose_plan(length, 1), LAMBDA ch :
         IF ch.kind = "pack"
         THEN MixedPlan(rfftp_ctor(ToNum(length), al, a), length, ch.calls)
         ELSE BluePlan(fftblue_ctor(length, al, a), length, ch.calls))

\* pocketfft_r::pocketfft_r(length)
pocketfft_r_ctor(length, al, a) ==
  IF length = 0
  THEN [obj |-> [len |-> length, kind |-> "none", packplan |-> NoPlan],
        exc |-> "zero-length FFT requested", na |-> a,
        nullidx |-> FALSE, calls |-> <<>>, nested |-> <<>>]
  ELSE Bind(choose_plan(length, 2), LAMBDA ch :
         IF ch.kind = "pack"
         THEN MixedPlan(rfftp_ctor(ToNum(length), al, a), length, ch.calls)
         ELSE BluePlan(fftblue_ctor(length, al, a), length, ch.calls))

WithNested(r) == [c |-> r.c, exc |-> r.exc, na |-> r.na, trace |-> r.trace,
                  nmul |-> r.nmul, nested |-> <<>>]

\* pocketfft_c::forward, pocketfft_c::backward
pocketfft_c_forward(o, c, fct, al, a) ==
  IF o.kind = "pack" THEN WithNested(cfftp_forward(o.packplan, c, fct, al, a))
  ELSE fftblue_forward(o.blueplan, c, fct, al, a)
pocketfft_c_backward(o, c, fct, al, a) ==
  IF o.kind = "pack" THEN WithNested(cfftp_backward(o.packplan, c, fct, al, a))
  ELSE fftblue_backward(o.blueplan, c, fct, al, a)

\* pocketfft_r::forward, pocketfft_r::backward
pocketfft_r_forward(o, c, fct, al, a) ==
  IF o.kind = "pack" THEN WithNested(rfftp_forward(o.packplan, c, fct, al, a))
  ELSE fftblue_forward_r(o.blueplan, c, fct, al, a)
pocketfft_r_backward(o, c, fct, al, a) ==
  IF o.kind = "pack" THEN WithNested(rfftp_backward(o.packplan, c, fct, al, a))
  ELSE fftblue_backward_r(o.blueplan, c, fct, al, a)

\* ------------------------------------------------- multi-D infrastructure
\* size_t and pointer arithmetic wraps: values are kept modulo 2^AddrBits
RECURSIVE Pow2(_)
Pow2(e) == IF e = 0 THEN 1 ELSE 2 * Pow2(e - 1)
AddrSpace == Pow2(AddrBits)
Wrap(x) == ((x % AddrSpace) + AddrSpace) % AddrSpace

\* multiarr(n, s): the vector of diminfo {n[i], s[i]}
multiarr(n, s) == [i \in 1..Len(n) |-> [n |-> n[i], s |-> s[i]]]

\* v[i] for a vector v and a 0-based index i; reading past the end is
\* undefined and yields g
At(v, i, g) == IF i < Len(v) THEN v[i + 1] ELSE g

\* the entries of arr other than idim, in order
RECURSIVE other_dims(_, _, _)
other_dims(a, idim, i) ==
  IF i >= Len(a) THEN <<>>
  ELSE (IF i # idim THEN <<a[i + 1]>> ELSE <<>>) \o other_dims(a, idim, i + 1)

RECURSIVE dims_product(_)
dims_product(d) == IF d = <<>> THEN 1 ELSE Head(d).n * dims_product(Tail(d))

\* multi_iter::multi_iter(arr, idim), for arr.ndim() >= 1
multi_iter_ctor(a, idim, g) ==
  LET d == other_dims(a, idim, 0)
  IN [dim |-> d, pos |-> [i \in 1..(Len(a) - 1) |-> 0], ofs |-> 0,
      len |-> At(a, idim, g).n, str |-> At(a, idim, g).s,
      rem |-> dims_product(d), done |-> \E i \in 1..Len(d) : d[i].n = 0]

\* the loop of multi_iter::advance without "ofs_ -= dim[i].n*dim[i].s"
RECURSIVE advance_loop_no_rewind(_, _)
advance_loop_no_rewind(it, i) ==
  IF i < 0 THEN [it EXCEPT !.done = TRUE]
  ELSE LET it2 == [it EXCEPT !.pos[i + 1] = @ + 1,
                             !.ofs = Wrap(@ + it.dim[i + 1].s)]
       IN IF it2.pos[i + 1] < it2.dim[i + 1].n THEN it2
          ELSE advance_loop_no_rewind([it2 EXCEPT !.pos[i + 1] = 0], i - 1)

\* the loop of multi_iter::advance, from index i (0-based) downwards
RECURSIVE advance_loop(_, _)
advance_loop(it, i) ==
  IF i < 0 THEN [it EXCEPT !.done = TRUE]
  ELSE LET it2 == [it EXCEPT !.pos[i + 1] = @ + 1,
                             !.ofs = Wrap(@ + it.dim[i + 1].s)]
       IN IF it2.pos[i + 1] < it2.dim[i + 1].n THEN it2
          ELSE advance_loop(
                 [it2 EXCEPT !.pos[i + 1] = 0,
                             !.ofs = Wrap(@ - it.dim[i + 1].n * it.dim[i + 1].s)],
                 i - 1)

\* multi_iter::advance
advance(it) ==
  IF it.rem - 1 <= 0 THEN [it EXCEPT !.rem = @ - 1, !.done = TRUE]
  ELSE advance_loop([it EXCEPT !.rem = @ - 1], Len(it.pos) - 1)

\* alloc_tmp(shape, axes, elemsize) in a build without vector support:
\* arr<char>(tmpsize*elemsize) with tmpsize the largest transformed extent
RECURSIVE max_extent(_, _, _)
max_extent(shape, axes, g) ==
  IF axes = <<>> THEN 0
  ELSE Max(At(shape, Head(axes), g), max_extent(shape, Tail(axes), g))
alloc_tmp(shape, axes, elemsize, g, al, a) ==
  arr_ctor(max_extent(shape, axes, g) * elemsize, al, a)

\* sizeof(cmplx<double>), sizeof(cmplx<float>)
ElemSize(dp) == IF dp THEN 16 ELSE 8

\* the byte offsets, from the base pointer, of the elements
\* data[it.offset() + i*it.stride()], i < it.length()
slice_addresses(it, elemsize) ==
  [i \in 0..(it.len - 1) |-> Wrap(elemsize * Wrap(it.ofs + i * it.str))]

\* pocketfft_general_r2c, the stores after plan.forward: for every bin of
\* d_o the index of tdata its real part and its imaginary part are set from
\* (-1: Set(re) leaves the imaginary part 0)
\* the store to bin (i+1)/2 for an odd i: iteration i of
\* for (i=1; i<len-1; i+=2) takes tdata[i] and tdata[i+1]; the statement
\* after the loop takes tdata[i] for the i the loop ended with, if i<len
r2c_store(i, len) ==
  IF i < len - 1 THEN [re |-> i, im |-> i + 1]
  ELSE IF i - 2 < len - 1 /\ i < len THEN [re |-> i, im |-> -1]
  ELSE [re |-> -2, im |-> -2]
r2c_unpack(len) ==
  [bin \in 0..(len \div 2) |->
     IF bin = 0 THEN [re |-> 0, im |-> -1] ELSE r2c_store(2 * bin - 1, len)]

\* pocketfft_general_c2r, the stores before plan.backward: for every index
\* of tdata the bin of d_i and the part of it that is stored (bin -1: the
\* index is not written)
\* the store to tdata[j], j >= 1: iteration i of for (i=1; i<len-1; i+=2)
\* stores to i and i+1, the statement after the loop to the i the loop
\* ended with, if i<len
c2r_store(j, len) ==
  LET i == IF j % 2 = 1 THEN j ELSE j - 1
  IN IF i < len - 1
     THEN [bin |-> (i + 1) \div 2, part |-> IF j = i THEN "r" ELSE "i"]
     ELSE IF j = i /\ i - 2 < len - 1 /\ i < len
     THEN [bin |-> (i + 1) \div 2, part |-> "r"]
     ELSE [bin |-> -1, part |-> "r"]
c2r_pack(len) ==
  [j \in 0..(len - 1) |->
     IF j = 0 THEN [bin |-> 0, part |-> "r"] ELSE c2r_store(j, len)]

\* cmplx::Set(r, i) and cmplx::Set(r) from elements of tdata
SetOf(t, u) ==
  Elem(IF Tainted(t[u.re]) \/ (u.im >= 0 /\ Tainted(t[u.im])) THEN "garbage"
       ELSE IF t[u.re].k = "num" /\ (u.im < 0 \/ t[u.im].k = "num") THEN "num"
       ELSE "x",
       <<t[u.re].v, IF u.im >= 0 THEN t[u.im].v ELSE 0>>,
       t[u.re].st, t[u.re].sc)
\* d_i[bin].r and d_i[bin].i
PartOf(e, part) == Elem(e.k, IF part = "r" THEN e.v[1] ELSE e.v[2], e.st, e.sc)

\* the body of the loop over the slices of pocketfft_general_r2c, from the
\* gathered tdata to the bins stored
r2c_slice(plan, tdata, fct, al, a) ==
  Bind(pocketfft_r_forward(plan, tdata, fct, al, a), LAMBDA r :
    IF r.exc # "none" THEN r
    ELSE Bind(r2c_unpack(plan.len), LAMBDA u :
           [r EXCEPT !.c = [bin \in 0..(plan.len \div 2) |->
                              SetOf(r.c, u[bin])]]))

\* the body of the loop over the slices of pocketfft_general_c2r, from the
\* bins of the slice to the tdata that is scattered
c2r_slice(plan, d_i, fct, al, a) ==
  LET pk == c2r_pack(plan.len)
      tdata == [i \in DOMAIN pk |->
                  IF pk[i].bin < 0 THEN Uninit(RZero)
                  ELSE PartOf(d_i[pk[i].bin], pk[i].part)]
  IN pocketfft_r_backward(plan, tdata, fct, al, a)

\* ==================================================== the plans as objects
VARIABLES
  pc,       \* "idle", "built", "failed", "done", "crashed"
  cls,      \* the class of the plan: "cfftp", "rfftp", "fftblue", ...
  obj,      \* the plan
  exc,      \* the exception the last operation threw ("none": it returned)
  calls,    \* the helper calls the constructor made, with their argument
  nested,   \* the calls the last operation made on a nested plan
  nullidx,  \* a null buffer was indexed
  op,       \* the last transform: direction, scale, stages, multiplications
  inp,      \* the buffer handed to the last transform
  buf,      \* the buffer after the last transform
  afail,    \* an allocation of the last operation returned null
  drv,      \* the call of pocketfft_complex in progress
  thr,      \* per thread, the transform call it makes on the shared plan
  ev        \* the helper called last, its argument and what it returned

vars ==
  <<pc, cls, obj, exc, calls, nested, nullidx, op, inp, buf, afail, drv, thr,
    ev>>

\* some of the first na allocations of an operation failed
AnyFailed(al, na) == \E i \in 1..Min(na, Len(al)) : ~al[i]

\* layout: the index map the operation moved the packed spectrum with
NoOp == [dir |-> "none", fct |-> 0, nmul |-> 0, trace |-> <<>>,
         layout |-> <<>>]
NoBuf == <<>>

Classes == {"cfftp", "rfftp", "fftblue", "pocketfft_c", "pocketfft_r"}

\* the lengths above MaxLen handed to the constructors of cfftp and rfftp:
\* powers of 2 and of 3 around the 25-factor limit, below 2^64
BigLengths ==
  {[p2 |-> e, p3 |-> 0, m |-> 1] : e \in 47..MaxP2} \cup
  {[p2 |-> 0, p3 |-> e, m |-> 1] : e \in 24..MaxP3} \cup
  {[p2 |-> 0, p3 |-> e, m |-> 5] : e \in 24..(MaxP3 - 1)}

\* the lengths above MaxLen handed to the dispatchers: the first lengths
\* that reach the cost comparison and that take the Bluestein plan
DispatchLengths == {50, 51, 89, 191}

AllocOracles(k) == [1..Min(k, MaxAllocFail) -> BOOLEAN]

Facts == 1..MaxFact

\* the lengths whose stages are all twiddle-free radix 2 and 4: the values
\* are followed exactly
ExactLengths == {1, 2, 4}
Comp == {Elem("num", <<re, im>>, 0, <<>>) : re \in 0..MaxVal, im \in 0..MaxVal}
Real == {Elem("num", re, 0, <<>>) : re \in 0..MaxVal}
RampC(n) == [i \in 0..(n - 1) |-> Elem("num", <<i + 1, 0>>, 0, <<>>)]
RampR(n) == [i \in 0..(n - 1) |-> Elem("num", (i + 1) * (i + 1), 0, <<>>)]
InputsC(c, n) ==
  IF n \in ExactLengths /\ c # "fftblue"
  THEN [0..(n - 1) -> Comp] \cup {RampC(n)}
  ELSE {Buf(n, Elem("x", CZero, 0, <<>>))}
InputsR(c, n) ==
  IF n \in ExactLengths /\ c # "fftblue"
  THEN [0..(n - 1) -> Real] \cup {RampR(n)}
  ELSE {Buf(n, Elem("x", RZero, 0, <<>>))}

\* the half spectra handed to c2r for a length n
HalfSpectra(n) ==
  IF n \in ExactLengths THEN [0..(n \div 2) -> Comp]
  ELSE {Buf(n \div 2 + 1, Elem("x", CZero, 0, <<>>))}

IsReal(c) == c \in {"rfftp", "pocketfft_r"}

construct(c, length, al) ==
  CASE c = "cfftp" -> cfftp_ctor(length, al, 0) @@ [nested |-> <<>>]
    [] c = "rfftp" -> rfftp_ctor(length, al, 0) @@ [nested |-> <<>>]
    [] c = "fftblue" -> fftblue_ctor(NVal(length), al, 0)
    [] c = "pocketfft_c" -> pocketfft_c_ctor(NVal(length), al, 0)
    [] c = "pocketfft_r" -> pocketfft_r_ctor(NVal(length), al, 0)

LengthsOf(c) ==
  CASE c \in {"cfftp", "rfftp"} ->
         {ToNum(n) : n \in 0..MaxLen} \cup BigLengths
    [] c = "fftblue" -> {ToNum(n) : n \in 1..MaxLen}
    [] OTHER -> {ToNum(n) : n \in (0..MaxLen) \cup DispatchLengths}

\* ------------------------------------------------------ pocketfft_complex
NoDispatcher == [len |-> 0, kind |-> "none", packplan |-> NoPlan]
NoIter == [dim |-> <<>>, pos |-> <<>>, ofs |-> 0, len |-> 0, str |-> 0,
           rem |-> 0, done |-> TRUE]
\* ret: -1 while the call has not returned; ub: an element past the end of a
\* vector was read; data_in: the array data_in points to; raddr, waddr: the
\* byte offsets read and written for the last slice; rslice, wslice: the
\* iterators they were computed from; exc: what was caught
NoCall ==
  [args |-> <<>>, ret |-> -1, ub |-> FALSE, iax |-> 0, a_in |-> <<>>,
   a_out |-> <<>>, data_in |-> "in", fct |-> 0, plan |-> NoDispatcher,
   it_in |-> NoIter, it_out |-> NoIter, raddr |-> <<>>, waddr |-> <<>>,
   rslice |-> NoIter, wslice |-> NoIter,
   didread |-> FALSE, didwrite |-> FALSE, exc |-> "none", slices |-> 0,
   last |-> NoOp]

Dims == {0, 1, 2}
Extents == 0..MaxExt
Strides == {-1, 2}
Shapes(ndim) == [1..ndim -> Extents]
StridesOf(ndim) == [1..ndim -> Strides]
\* row-major element strides of a shape
Contiguous(shape) ==
  [i \in 1..Len(shape) |-> IF i = Len(shape) THEN 1 ELSE Max(shape[Len(shape)], 1)]
\* the lists of at most ndim axes with entries up to ndim (one past the
\* last axis), and two lists that are too long
AxesOf(ndim) ==
  UNION {[1..nax -> 0..ndim] : nax \in 0..ndim} \cup
  {[i \in 1..(ndim + 1) |-> 0], [i \in 1..(ndim + 1) |-> ndim]}
\* what reading past the end of a vector<diminfo> or a shape_t may yield
Garbage == {[n |-> n, s |-> 1] : n \in Extents}
NoGarbage == {[n |-> 0, s |-> 0]}

Args ==
  UNION {UNION {{[ndim |-> ndim, shape |-> sh, stride_in |-> si,
                  stride_out |-> so, nax |-> Len(ax), axes |-> ax,
                  forward |-> fw, fct |-> fc, dp |-> dp] :
                   so \in {si, Contiguous(sh)}, ax \in AxesOf(ndim),
                   fw \in BOOLEAN, fc \in Facts, dp \in BOOLEAN} :
                 sh \in Shapes(ndim), si \in StridesOf(ndim)} :
         ndim \in Dims}

\* ------------------------------------------------- calls on a shared plan
\* at: "out" (no call), "pass" (pass_all or rfftp::forward/backward
\* entered), "loop" (in its loop, about to run stage k1), "tail" (it
\* returned), "ret" (the call returned); dir, fact, x: the call and the
\* buffer it was handed; c: the caller's buffer; s: the locals of the pass
\* (s.c the buffer it works on, s.ch its scratch); bwd, pf: its direction
\* and scale; phase: 1 and 2 for the two passes fftblue::fft makes on akf
Threads == 1..2
NoPass == [c |-> <<>>, ch |-> <<>>, p1 |-> "c", l1 |-> 0, trace |-> <<>>]
NoThread ==
  [at |-> "out", dir |-> "none", fact |-> 0, x |-> <<>>, c |-> <<>>,
   phase |-> 0, bwd |-> FALSE, pf |-> 0, s |-> NoPass, k1 |-> 0]

\* no helper has been called
NoEval == [fn |-> "none", arg |-> 0, res |-> 0]

OutOfRange(a) == \E i \in 1..Len(a.axes) : a.axes[i] >= a.ndim

Init ==
  /\ pc = "idle" /\ cls = "none" /\ obj = NoPlan /\ exc = "none"
  /\ calls = <<>> /\ nested = <<>> /\ nullidx = FALSE
  /\ op = NoOp /\ inp = NoBuf /\ buf = NoBuf
  /\ afail = FALSE /\ drv = NoCall
  /\ thr = [t \in Threads |-> NoThread]
  /\ ev = NoEval

\* new c(length).  Storing through a null mem is undefined: the program
\* stops there or goes on as if the store had succeeded
Construct(c, length, al) ==
  /\ pc = "idle"
  /\ \E r \in {construct(c, length, al)} :
       /\ cls' = c /\ obj' = r.obj /\ exc' = r.exc /\ calls' = r.calls
       /\ nested' = r.nested /\ nullidx' = r.nullidx
       /\ afail' = AnyFailed(al, r.na)
       /\ \E stop \in IF r.nullidx THEN BOOLEAN ELSE {FALSE} :
            pc' = IF stop THEN "crashed"
                  ELSE IF r.exc = "none" THEN "built" ELSE "failed"
  /\ UNCHANGED <<op, inp, buf, drv, thr, ev>>

\* the length of the plan and whether one of its twiddle tables is null
PlanLen(c, o) ==
  CASE c \in {"cfftp", "rfftp"} -> o.n
    [] c = "fftblue" -> o.n
    [] OTHER -> o.len
NullMem(m) == m.null /\ m.sz > 0
NullTables(c, o) ==
  CASE c \in {"cfftp", "rfftp"} -> NullMem(o.mem)
    [] c = "fftblue" -> NullMem(o.plan.mem)
    [] OTHER -> IF o.kind = "pack" THEN NullMem(o.packplan.mem)
                ELSE NullMem(o.blueplan.plan.mem)

transform(c, o, dir, x, fct, al) ==
  CASE c = "cfftp" ->
         WithNested(IF dir = "forward" THEN cfftp_forward(o, x, fct, al, 0)
                    ELSE cfftp_backward(o, x, fct, al, 0))
    [] c = "rfftp" ->
         WithNested(IF dir = "forward" THEN rfftp_forward(o, x, fct, al, 0)
                    ELSE rfftp_backward(o, x, fct, al, 0))
    [] c = "fftblue" ->
         (CASE dir = "forward" -> fftblue_forward(o, x, fct, al, 0)
            [] dir = "backward" -> fftblue_backward(o, x, fct, al, 0)
            [] dir = "forward_r" -> fftblue_forward_r(o, x, fct, al, 0)
            [] dir = "backward_r" -> fftblue_backward_r(o, x, fct, al, 0))
    [] c = "pocketfft_c" ->
         IF dir = "forward" THEN pocketfft_c_forward(o, x, fct, al, 0)
         ELSE pocketfft_c_backward(o, x, fct, al, 0)
    [] c = "pocketfft_r" ->
         IF dir = "forward" THEN pocketfft_r_forward(o, x, fct, al, 0)
         ELSE pocketfft_r_backward(o, x, fct, al, 0)

\* the allocations one transform makes at most
TransformAllocs(c, o) ==
  CASE c \in {"cfftp", "rfftp"} -> IF o.n = 1 THEN 0 ELSE 1
    [] c = "fftblue" -> 4
    [] OTHER -> IF o.kind = "pack" THEN (IF o.len = 1 THEN 0 ELSE 1)
                ELSE IF c = "pocketfft_r" THEN 4 ELSE 3

\* the entry points of a class and the buffers they take
Dirs(c) ==
  IF c = "fftblue" THEN {"forward", "backward", "forward_r", "backward_r"}
  ELSE {"forward", "backward"}
InputsOf(c, o, dir) ==
  IF IsReal(c) \/ dir \in {"forward_r", "backward_r"}
  THEN InputsR(c, PlanLen(c, o)) ELSE InputsC(c, PlanLen(c, o))

\* the index map of the real wrappers of the Bluestein plan
LayoutOf(c, o, dir) ==
  LET blue == c = "fftblue" \/ (c = "pocketfft_r" /\ o.kind = "blue")
  IN IF blue /\ dir \in {"forward_r"} \cup
                        (IF c = "pocketfft_r" THEN {"forward"} ELSE {})
     THEN forward_r_pack(PlanLen(c, o))
     ELSE IF blue /\ dir \in {"backward_r"} \cup
                             (IF c = "pocketfft_r" THEN {"backward"} ELSE {})
     THEN backward_r_unpack(PlanLen(c, o))
     ELSE <<>>

\* plan.forward(x, fct) or plan.backward(x, fct) on a constructed plan
Transform(dir, x, fct, al) ==
  /\ pc = "built"
  /\ \E r \in {transform(cls, obj, dir, x, fct, al)} :
       /\ pc' = "done" /\ exc' = r.exc /\ nested' = r.nested
       /\ op' = [dir |-> dir, fct |-> fct, nmul |-> r.nmul, trace |-> r.trace,
                 layout |-> LayoutOf(cls, obj, dir)]
       /\ inp' = x /\ buf' = r.c
       /\ nullidx' = (nullidx \/ (NullTables(cls, obj) /\ r.trace # <<>>))
       /\ afail' = AnyFailed(al, r.na)
  /\ UNCHANGED <<cls, obj, calls, drv, thr, ev>>

\* one slice of pocketfft_general_r2c with a constructed pocketfft_r
R2cSlice(x, fct, al) ==
  /\ pc = "built" /\ cls = "pocketfft_r"
  /\ \E r \in {r2c_slice(obj, x, fct, al, 0)} :
       /\ pc' = "done" /\ exc' = r.exc /\ nested' = r.nested
       /\ op' = [dir |-> "r2c", fct |-> fct, nmul |-> r.nmul, trace |-> r.trace,
                 layout |-> r2c_unpack(obj.len)]
       /\ inp' = x /\ buf' = r.c
       /\ nullidx' = (nullidx \/ (NullTables(cls, obj) /\ r.trace # <<>>))
       /\ afail' = AnyFailed(al, r.na)
  /\ UNCHANGED <<cls, obj, calls, drv, thr, ev>>

\* one slice of pocketfft_general_c2r with a constructed pocketfft_r
C2rSlice(x, fct, al) ==
  /\ pc = "built" /\ cls = "pocketfft_r"
  /\ \E r \in {c2r_slice(obj, x, fct, al, 0)} :
       /\ pc' = "done" /\ exc' = r.exc /\ nested' = r.nested
       /\ op' = [dir |-> "c2r", fct |-> fct, nmul |-> r.nmul, trace |-> r.trace,
                 layout |-> c2r_pack(obj.len)]
       /\ inp' = x /\ buf' = r.c
       /\ nullidx' = (nullidx \/ (NullTables(cls, obj) /\ r.trace # <<>>))
       /\ afail' = AnyFailed(al, r.na)
  /\ UNCHANGED <<cls, obj, calls, drv, thr, ev>>

\* the caller is done with the buffer; the plan is ready for the next call
Release ==
  /\ pc = "done"
  /\ pc' = "built" /\ exc' = "none" /\ nested' = <<>>
  /\ op' = NoOp /\ inp' = NoBuf /\ buf' = NoBuf /\ afail' = FALSE
  /\ UNCHANGED <<cls, obj, calls, nullidx, drv, thr, ev>>

\* the plan is destroyed
Destroy ==
  /\ pc \in {"built", "failed", "done"}
  /\ pc' = "idle" /\ cls' = "none" /\ obj' = NoPlan /\ exc' = "none"
  /\ calls' = <<>> /\ nested' = <<>> /\ nullidx' = FALSE
  /\ op' = NoOp /\ inp' = NoBuf /\ buf' = NoBuf /\ afail' = FALSE
  /\ UNCHANGED <<drv, thr, ev>>

\* pocketfft_complex up to the loop over the axes of pocketfft_general_c.
\* The slices are taken one at a time, as the loop
\* while (it_in.remaining()>0) takes them; the loop of a build with vector
\* support gathers vlen slices from the same addresses before it.
PocketfftComplex(a, g, al) ==
  /\ pc = "idle"
  /\ IF a.nax > a.ndim
     THEN /\ drv' = [NoCall EXCEPT !.args = a, !.fct = a.fct, !.ret = 1]
          /\ pc' = "returned"
          /\ afail' = FALSE
     ELSE \E storage \in
              {alloc_tmp(a.shape, a.axes, ElemSize(a.dp), g, al, 0)} :
                 /\ afail' = (storage.arr.null /\ storage.arr.sz # 0)
                 /\ IF storage.exc # "none"
                    THEN /\ drv' = [NoCall EXCEPT
                                      !.args = a, !.fct = a.fct, !.ret = 1,
                                      !.exc = storage.exc,
                                      !.ub = OutOfRange(a)]
                         /\ pc' = "returned"
                    ELSE /\ drv' = [NoCall EXCEPT
                                      !.args = a, !.fct = a.fct,
                                      !.ub = OutOfRange(a),
                                      !.a_in = multiarr(a.shape, a.stride_in),
                                      !.a_out = multiarr(a.shape, a.stride_out)]
                         /\ pc' = "drv_axis"
  /\ UNCHANGED <<cls, obj, exc, calls, nested, nullidx, op, inp, buf, thr, ev>>

\* the head of one iteration of the loop over the axes: the iterators and
\* the plan; when the axes are exhausted the call returns 0
DrvAxis(g, al) ==
  /\ pc = "drv_axis"
  /\ IF drv.iax >= drv.args.nax
     THEN /\ drv' = [drv EXCEPT !.ret = 0]
          /\ pc' = "returned"
          /\ UNCHANGED afail
     ELSE \E d2 \in {[drv EXCEPT
                  !.it_in = multi_iter_ctor(drv.a_in,
                                            drv.args.axes[drv.iax + 1], g),
                  !.it_out = multi_iter_ctor(drv.a_out,
                                             drv.args.axes[drv.iax + 1], g)]} :
                 IF drv.plan.kind # "none" /\ d2.it_in.len = drv.plan.len
                 THEN /\ drv' = d2 /\ pc' = "drv_slice" /\ UNCHANGED afail
                 ELSE \E r \in {pocketfft_c_ctor(d2.it_in.len, al, 0)} :
                        /\ afail' = (afail \/ AnyFailed(al, r.na))
                        /\ IF r.exc # "none"
                           THEN /\ drv' = [d2 EXCEPT !.ret = 1, !.exc = r.exc,
                                                    !.ub = @ \/ r.nullidx]
                                /\ pc' = "returned"
                           ELSE /\ drv' = [d2 EXCEPT !.plan = r.obj,
                                                    !.ub = @ \/ r.nullidx]
                                /\ pc' = "drv_slice"
  /\ UNCHANGED <<cls, obj, exc, calls, nested, nullidx, op, inp, buf, thr, ev>>

\* the end of an iteration with the scale kept for the axes that follow
next_axis_keep_fct(d) ==
  [d EXCEPT !.a_in = d.a_out, !.data_in = "out", !.iax = @ + 1, !.slices = 0]

\* the end of one iteration of the loop over the axes:
\* a_in = a_out; data_in = data_out; fct = T(1); and ++iax
next_axis(d) ==
  [d EXCEPT !.a_in = d.a_out, !.data_in = "out", !.fct = 1, !.iax = @ + 1,
            !.slices = 0]

\* one iteration of the loop over the slices (gather, transform, scatter,
\* advance), or the end of the iteration over the axes
DrvSlice(al) ==
  /\ pc = "drv_slice"
  /\ IF drv.it_in.rem > 0
     THEN \E r \in {IF drv.args.forward
               THEN pocketfft_c_forward(
                      drv.plan, Buf(drv.it_in.len, Elem("x", CZero, 0, <<>>)),
                      drv.fct, al, 0)
               ELSE pocketfft_c_backward(
                      drv.plan, Buf(drv.it_in.len, Elem("x", CZero, 0, <<>>)),
                      drv.fct, al, 0)} :
          \E d2 \in {[drv EXCEPT
                  !.raddr = slice_addresses(drv.it_in, ElemSize(drv.args.dp)),
                  !.rslice = drv.it_in,
                  !.didread = TRUE,
                  !.last = [dir |-> IF drv.args.forward
                                    THEN "forward" ELSE "backward",
                            fct |-> drv.fct, nmul |-> r.nmul,
                            trace |-> r.trace, layout |-> <<>>]]} :
                 /\ afail' = (afail \/ AnyFailed(al, r.na))
                 /\ IF r.exc # "none"
                    THEN /\ drv' = [d2 EXCEPT !.ret = 1, !.exc = r.exc]
                         /\ pc' = "returned"
                    ELSE /\ drv' = [d2 EXCEPT
                                      !.waddr = slice_addresses(
                                                  drv.it_out,
                                                  ElemSize(drv.args.dp)),
                                      !.wslice = drv.it_out,
                                      !.didwrite = drv.it_out.len > 0,
                                      !.slices = @ + 1,
                                      !.it_in = advance(drv.it_in),
                                      !.it_out = advance(drv.it_out)]
                         /\ pc' = "drv_slice"
     ELSE /\ drv' = next_axis(drv)
          /\ pc' = "drv_axis"
          /\ UNCHANGED afail
  /\ UNCHANGED <<cls, obj, exc, calls, nested, nullidx, op, inp, buf, thr, ev>>

\* the caller takes the result
DrvReturn ==
  /\ pc = "returned"
  /\ pc' = "idle" /\ drv' = NoCall /\ afail' = FALSE
  /\ UNCHANGED <<cls, obj, exc, calls, nested, nullidx, op, inp, buf, thr, ev>>

\* the plans whose buffers the model holds
Transformable(c, o) ==
  PlanLen(c, o) <= MaxLen \/ PlanLen(c, o) \in DispatchLengths

Next ==
  \/ /\ pc = "idle"
     /\ \E c \in Classes : \E length \in LengthsOf(c) :
          \E al \in AllocOracles(5) : Construct(c, length, al)
  \/ /\ pc = "built"
     /\ Transformable(cls, obj)
     /\ \E dir \in Dirs(cls), fct \in Facts :
          \E x \in InputsOf(cls, obj, dir) :
            \E al \in AllocOracles(TransformAllocs(cls, obj)) :
              Transform(dir, x, fct, al)
  \/ /\ pc = "built" /\ cls = "pocketfft_r"
     /\ Transformable(cls, obj)
     /\ \E fct \in Facts : \E al \in AllocOracles(TransformAllocs(cls, obj)) :
          \/ \E x \in InputsR(cls, obj.len) : R2cSlice(x, fct, al)
          \/ \E x \in HalfSpectra(obj.len) : C2rSlice(x, fct, al)
  \/ Release
  \/ Destroy
  \/ /\ pc = "idle"
     /\ \E a \in Args :
          \E g \in (IF OutOfRange(a) THEN Extents ELSE {0}) :
            \E al \in AllocOracles(1) : PocketfftComplex(a, g, al)
  \/ /\ pc = "drv_axis"
     /\ \E g \in (IF drv.ub THEN Garbage ELSE NoGarbage) :
          \E al \in AllocOracles(2) : DrvAxis(g, al)
  \/ /\ pc = "drv_slice"
     /\ \E al \in AllocOracles(1) : DrvSlice(al)
  \/ DrvReturn

Spec == Init /\ [][Next]_vars

\* ============================================ two calls on one shared plan
\* the plan whose pass runs: the plan itself, or the cfftp inside fftblue
pass_plan(c, o) == IF c = "fftblue" THEN o.plan ELSE o

\* entry of forward/backward: cfftp and rfftp hand c to their pass;
\* fftblue::fft declares arr<T> akf(2*n2), fills it from c and the table bk
\* and calls plan.forward(akf, 1.)
thr_call(c, o, dir, x, fact) ==
  [plan |-> o,
   th |-> IF c = "fftblue"
          THEN [NoThread EXCEPT
                  !.at = "pass", !.dir = dir, !.fact = fact, !.x = x, !.c = x,
                  !.phase = 1, !.bwd = FALSE, !.pf = 1,
                  !.s = [NoPass EXCEPT !.c = fft_akf(o, x)]]
          ELSE [NoThread EXCEPT
                  !.at = "pass", !.dir = dir, !.fact = fact, !.x = x, !.c = x,
                  !.bwd = (dir = "backward"), !.pf = fact,
                  !.s = [NoPass EXCEPT !.c = x]]]

\* the head of the pass: if (length==1) { c[0]*=fact; return; } and the
\* locals l1, arr<T> ch(length), p1=c
thr_head(c, o, th) ==
  LET p == pass_plan(c, o)
  IN [plan |-> o,
      th |-> IF p.n = 1
             THEN [th EXCEPT !.at = "tail",
                             !.s.c[0] = IF c = "rfftp" THEN RScaleElem(@, th.pf)
                                        ELSE CScaleElem(@, th.pf)]
             ELSE [th EXCEPT !.at = "loop", !.k1 = 1,
                             !.s.ch = Buf(p.n, Uninit(IF c = "rfftp" THEN RZero
                                                      ELSE CZero)),
                             !.s.l1 = IF c = "rfftp" /\ ~th.bwd THEN p.n ELSE 1]]

\* one iteration of the loop with the count of the factors left kept in
\* the plan
thr_stage_counts_in_plan(c, o, th) ==
  LET p == pass_plan(c, o)
  IN [plan |-> IF c = "fftblue" THEN [o EXCEPT !.plan.nfct = @ - 1]
               ELSE [o EXCEPT !.nfct = @ - 1],
      th |-> [th EXCEPT
                !.s = CASE c = "rfftp" /\ ~th.bwd ->
                             rfftp_forward_stage(p.n, p.fct[p.nfct], th.s)
                        [] c = "rfftp" /\ th.bwd ->
                             rfftp_backward_stage(
                               p.n, p.fct[Len(p.fct) - p.nfct + 1], th.s)
                        [] OTHER ->
                             pass_all_stage(
                               th.bwd, p.n, p.fct[Len(p.fct) - p.nfct + 1],
                               th.s)]]

\* one iteration of the loop over the factors: it reads fct[k] of the plan
\* and works on p1 and p2, which point to c and ch
thr_stage(c, o, th) ==
  LET p == pass_plan(c, o)
  IN [plan |-> o,
      th |-> [th EXCEPT
                !.k1 = @ + 1,
                !.s = CASE c = "rfftp" /\ ~th.bwd ->
                             rfftp_forward_stage(
                               p.n, p.fct[p.nfct - th.k1 + 1], th.s)
                        [] c = "rfftp" /\ th.bwd ->
                             rfftp_backward_stage(p.n, p.fct[th.k1], th.s)
                        [] OTHER ->
                             pass_all_stage(th.bwd, p.n, p.fct[th.k1], th.s)]]

\* after the loop: the copy from ch and the multiplication by fact
thr_finish(c, o, th) ==
  LET p == pass_plan(c, o)
  IN [plan |-> o,
      th |-> [th EXCEPT
                !.at = "tail",
                !.s.c = IF c = "rfftp" THEN copy_and_norm(th.s, p.n, th.pf).c
                        ELSE pass_all_finish(p.n, th.s, th.pf).c]]

\* the pass has returned.  cfftp and rfftp return to the caller; fftblue::fft
\* multiplies akf by bkf and calls plan.backward(akf, 1.), and after that
\* stores fct*(bk*akf) to c
thr_tail(c, o, th) ==
  [plan |-> o,
   th |-> CASE c # "fftblue" -> [th EXCEPT !.at = "ret", !.c = th.s.c]
            [] c = "fftblue" /\ th.phase = 1 ->
                 [th EXCEPT
                    !.at = "pass", !.phase = 2, !.bwd = TRUE, !.pf = 1,
                    !.k1 = 0,
                    !.s = [NoPass EXCEPT
                             !.c = [m \in DOMAIN th.s.c |->
                                      TableMul(th.s.c[m])]]]
            [] OTHER ->
                 [th EXCEPT
                    !.at = "ret",
                    !.c = [m \in DOMAIN th.c |->
                             CScaleElem(TableMul(th.s.c[m]), th.fact)]]]

\* the step r of thread t
ThrStep(t, r) ==
  /\ obj' = r.plan
  /\ thr' = [thr EXCEPT ![t] = r.th]
  /\ UNCHANGED <<pc, cls, exc, calls, nested, nullidx, op, inp, buf, afail,
                 drv, ev>>

ThrCall(t, dir, x, fact) ==
  /\ pc = "shared" /\ thr[t].at = "out"
  /\ ThrStep(t, thr_call(cls, obj, dir, x, fact))

ThrHead(t) ==
  /\ pc = "shared" /\ thr[t].at = "pass"
  /\ ThrStep(t, thr_head(cls, obj, thr[t]))

ThrStage(t) ==
  /\ pc = "shared" /\ thr[t].at = "loop"
  /\ thr[t].k1 <= pass_plan(cls, obj).nfct
  /\ ThrStep(t, thr_stage(cls, obj, thr[t]))

ThrFinish(t) ==
  /\ pc = "shared" /\ thr[t].at = "loop"
  /\ thr[t].k1 > pass_plan(cls, obj).nfct
  /\ ThrStep(t, thr_finish(cls, obj, thr[t]))

ThrTail(t) ==
  /\ pc = "shared" /\ thr[t].at = "tail"
  /\ ThrStep(t, thr_tail(cls, obj, thr[t]))

\* the caller takes its buffer; the thread may call again
ThrReturn(t) ==
  /\ pc = "shared" /\ thr[t].at = "ret"
  /\ thr' = [thr EXCEPT ![t] = NoThread]
  /\ UNCHANGED <<pc, cls, obj, exc, calls, nested, nullidx, op, inp, buf,
                 afail, drv, ev>>

\* the lengths of the shared plans and the buffers the threads hand in
SharedClasses == {"cfftp", "rfftp", "fftblue"}
SharedLengths == {1, 2, 3, 4, 6, 7, 13, 14, 26}
ThrInputs(c, n) ==
  IF n \in ExactLengths /\ c # "fftblue"
  THEN IF IsReal(c) THEN {RampR(n), Buf(n, Elem("num", 1, 0, <<>>))}
       ELSE {RampC(n), Buf(n, Elem("num", <<1, 1>>, 0, <<>>))}
  ELSE IF IsReal(c) THEN InputsR(c, n) ELSE InputsC(c, n)

\* a plan has been constructed and is handed to the threads
InitThreads ==
  /\ pc = "shared"
  /\ \E c \in SharedClasses, n \in SharedLengths :
       /\ cls = c
       /\ obj = construct(c, ToNum(n), <<>>).obj
  /\ exc = "none" /\ calls = <<>> /\ nested = <<>> /\ nullidx = FALSE
  /\ op = NoOp /\ inp = NoBuf /\ buf = NoBuf
  /\ afail = FALSE /\ drv = NoCall
  /\ thr = [t \in Threads |-> NoThread]
  /\ ev = NoEval

NextThreads ==
  \E t \in Threads :
    \/ \E dir \in {"forward", "backward"}, fact \in Facts :
         \E x \in ThrInputs(cls, PlanLen(cls, obj)) : ThrCall(t, dir, x, fact)
    \/ ThrHead(t)
    \/ ThrStage(t)
    \/ ThrFinish(t)
    \/ ThrTail(t)
    \/ ThrReturn(t)

SpecThreads == InitThreads /\ [][NextThreads]_vars

\* ============================================================ the trig table
\* A slot of the table holds a number.  A number the generator means to be a
\* cosine or a sine of a multiple of 2*pi/(4n) is written as the m in 0..2n
\* with cos(2*pi*m/(4n)) equal to it: every such cosine and sine is one of
\* these, and two of them are equal exactly when their m are equal.
\* Unwritten stands for a slot that was never stored, or that holds a number
\* computed from such a slot; v <= -2 stands for cos(2*pi*m/(4n)) - 1 with
\* m = -2 - v, the form in which my_sincosm1pi returns the cosine.
Unwritten == -1

\* cos is even and has the period 2*pi
Canon(n, m) ==
  LET r == m % (4 * n) IN IF r > 2 * n THEN 4 * n - r ELSE r

\* cos and sin of 2*pi*num/den, for den a divisor of 4n
Cos(n, num, den) == Canon(n, num * ((4 * n) \div den))
Sin(n, num, den) == Canon(n, num * ((4 * n) \div den) - n)

\* the unary minus on a slot: -cos(x) = cos(x + pi)
Negated(n, v) == IF v < 0 THEN Unwritten ELSE Canon(n, v + 2 * n)

\* x + 1. on a slot
PlusOne(v) == IF v <= -2 THEN -2 - v ELSE Unwritten

\* the angle, in units of 2*pi/(4n), whose cosine minus one is c and whose
\* sine is s; -1 if the two are not such a pair
AngleOf(n, c, s) ==
  IF c > -2 \/ s < 0 THEN -1
  ELSE IF s = Canon(n, (-2 - c) - n) THEN -2 - c
  ELSE IF s = Canon(n, (4 * n - (-2 - c)) - n) THEN 4 * n - (-2 - c)
  ELSE -1

\* the table while it is filled: data is the arr<double>(2*n), oob is set by
\* a store outside of it
NewTable(n) == [d |-> [i \in 0..(2 * n - 1) |-> Unwritten], oob |-> FALSE]

ld(t, i) == IF i \in DOMAIN t.d THEN t.d[i] ELSE Unwritten

st(t, i, v) ==
  IF i \in DOMAIN t.d THEN [t EXCEPT !.d[i] = v] ELSE [t EXCEPT !.oob = TRUE]

\* my_sincosm1pi((2.*i)/den, res): res[0] = cos(pi*a) - 1, res[1] = sin(pi*a)
\* for a = 2i/den; the polynomials are for the first octant, |a| <= 1/4
my_sincosm1pi(n, i, den) ==
  IF 8 * i > den THEN <<Unwritten, Unwritten>>
  ELSE <<-2 - Cos(n, i, den), Sin(n, i, den)>>

\* the l1 of calc_first_octant: (size_t)sqrt(n)
isqrt(n) == CHOOSE r \in 0..n : r * r <= n /\ (r + 1) * (r + 1) > n

\* calc_first_octant, the first loop: res[2*i], res[2*i+1] for i in 1..l1-1
RECURSIVE octant_direct(_, _, _, _, _, _)
octant_direct(n, den, p, l1, i, t) ==
  IF i >= l1 THEN t
  ELSE Bind(my_sincosm1pi(n, i, den), LAMBDA cs :
         octant_direct(n, den, p, l1, i + 1,
                       st(st(t, p + 2 * i, cs[1]), p + 2 * i + 1, cs[2])))

\* calc_first_octant, the inner loop of the second loop: the entry start+i
\* from cs (the entry start) and csx (the entry i, its cosine less one)
RECURSIVE octant_inner(_, _, _, _, _, _, _)
octant_inner(n, p, cs, start, end, i, t) ==
  IF i >= end THEN t
  ELSE Bind(<<AngleOf(n, cs[1], cs[2]),
              AngleOf(n, ld(t, p + 2 * i), ld(t, p + 2 * i + 1))>>,
            LAMBDA ab :
         Bind(IF ab[1] < 0 \/ ab[2] < 0 THEN <<Unwritten, Unwritten>>
              ELSE <<Canon(n, ab[1] + ab[2]), Canon(n, ab[1] + ab[2] - n)>>,
              LAMBDA r :
           octant_inner(n, p, cs, start, end, i + 1,
                        st(st(t, p + 2 * (start + i), r[1]),
                           p + 2 * (start + i) + 1, r[2]))))

\* calc_first_octant, the second loop: start = l1, 2*l1, ... below n
RECURSIVE octant_blocks(_, _, _, _, _, _, _)
octant_blocks(n, den, p, l1, cnt, start, t) ==
  IF start >= cnt THEN t
  ELSE Bind(my_sincosm1pi(n, start, den), LAMBDA cs :
         octant_blocks(n, den, p, l1, cnt, start + l1,
           octant_inner(n, p, cs, start,
                        IF start + l1 > cnt THEN cnt - start ELSE l1, 1,
                        st(st(t, p + 2 * start, PlusOne(cs[1])),
                           p + 2 * start + 1, cs[2]))))

\* calc_first_octant, the last loop: res[2*i] += 1. for i in 1..l1-1
RECURSIVE octant_plus1(_, _, _, _)
octant_plus1(p, l1, i, t) ==
  IF i >= l1 THEN t
  ELSE octant_plus1(p, l1, i + 1,
                    st(t, p + 2 * i, PlusOne(ld(t, p + 2 * i))))

\* calc_first_octant(den, res), res = data + p
calc_first_octant(n, den, p, t) ==
  Bind((den + 4) \div 8, LAMBDA cnt :
    IF cnt = 0 THEN t
    ELSE Bind(st(st(t, p, Cos(n, 0, den)), p + 1, Sin(n, 0, den)), LAMBDA t0 :
      IF cnt = 1 THEN t0
      ELSE Bind(isqrt(cnt), LAMBDA l1 :
             octant_plus1(p, l1, 1,
               octant_blocks(n, den, p, l1, cnt, l1,
                 octant_direct(n, den, p, l1, 1, t0))))))

\* calc_first_quadrant, the loop: two entries of p per round, the second
\* one swapped, to the two ends of res
RECURSIVE quadrant_loop(_, _, _, _, _, _)
quadrant_loop(p, ndone, i, idx1, idx2, t) ==
  IF i + 1 < ndone
  THEN Bind(st(t, idx1, ld(t, p + 2 * i)), LAMBDA t1 :
       Bind(st(t1, idx1 + 1, ld(t1, p + 2 * i + 1)), LAMBDA t2 :
       Bind(st(t2, idx2, ld(t2, p + 2 * i + 3)), LAMBDA t3 :
         quadrant_loop(p, ndone, i + 2, idx1 + 2, idx2 - 2,
                       st(t3, idx2 + 1, ld(t3, p + 2 * i + 2))))))
  ELSE IF i # ndone
  THEN Bind(st(t, idx1, ld(t, p + 2 * i)), LAMBDA t1 :
         st(t1, idx1 + 1, ld(t1, p + 2 * i + 1)))
  ELSE t

\* calc_first_quadrant(n, res): the octant of 2n at p = res + n
calc_first_quadrant(n, t) ==
  quadrant_loop(n, (n + 2) \div 4, 0, 0, 2 * ((n + 2) \div 4) - 2,
                calc_first_octant(n, 2 * n, n, t))

\* calc_first_half, the four loops, one after the other: oct is the loop
\* that is running
RECURSIVE half_loops(_, _, _, _, _, _, _)
half_loops(n, p, ndone, oct, i, i4, t) ==
  IF oct = 0
  THEN IF i4 <= n - i4
       THEN Bind(st(t, 2 * i, ld(t, p + 2 * i4)), LAMBDA t1 :
              half_loops(n, p, ndone, 0, i + 1, i4 + 4,
                         st(t1, 2 * i + 1, ld(t1, p + 2 * i4 + 1))))
       ELSE half_loops(n, p, ndone, 1, i, i4, t)
  ELSE IF oct = 1
  THEN IF i4 - n <= 0
       THEN Bind(st(t, 2 * i, ld(t, p + 2 * (n - i4) + 1)), LAMBDA t1 :
              half_loops(n, p, ndone, 1, i + 1, i4 + 4,
                         st(t1, 2 * i + 1, ld(t1, p + 2 * (n - i4)))))
       ELSE half_loops(n, p, ndone, 2, i, i4, t)
  ELSE IF oct = 2
  THEN IF i4 <= 3 * n - i4
       THEN Bind(st(t, 2 * i, Negated(n, ld(t, p + 2 * (i4 - n) + 1))),
                 LAMBDA t1 :
              half_loops(n, p, ndone, 2, i + 1, i4 + 4,
                         st(t1, 2 * i + 1, ld(t1, p + 2 * (i4 - n)))))
       ELSE half_loops(n, p, ndone, 3, i, i4, t)
  ELSE IF i < ndone
       THEN Bind(st(t, 2 * i, Negated(n, ld(t, p + 2 * (2 * n - i4)))),
                 LAMBDA t1 :
              half_loops(n, p, ndone, 3, i + 1, i4 + 4,
                         st(t1, 2 * i + 1, ld(t1, p + 2 * (2 * n - i4) + 1))))
       ELSE t

\* calc_first_half(n, res): the octant of 4n at p = res + n - 1
calc_first_half(n, t) ==
  half_loops(n, n - 1, (n + 1) \div 2, 0, 0, 0,
             calc_first_octant(n, 4 * n, n - 1, t))

\* fill_first_quadrant, the loop: the second octant is the first one
\* reversed and swapped
RECURSIVE quadrant_fill(_, _, _, _)
quadrant_fill(quart, i, j, t) ==
  IF i >= quart THEN t
  ELSE Bind(st(t, j, ld(t, i + 1)), LAMBDA t1 :
         quadrant_fill(quart, i + 2, j - 2, st(t1, j + 1, ld(t1, i))))

\* fill_first_quadrant(n, res); hsqt2 is cos(pi/4) = sin(pi/4)
fill_first_quadrant(n, t) ==
  Bind(n \div 4, LAMBDA quart :
    quadrant_fill(quart, 2, 2 * quart - 2,
                  IF n % 8 = 0
                  THEN st(st(t, quart + 1, Cos(n, 1, 8)), quart, Cos(n, 1, 8))
                  ELSE t))

\* fill_first_half, n a multiple of 4: the second quadrant from the first
RECURSIVE half_fill4(_, _, _, _)
half_fill4(n, half, i, t) ==
  IF i >= half THEN t
  ELSE Bind(st(t, i + half, Negated(n, ld(t, i + 1))), LAMBDA t1 :
         half_fill4(n, half, i + 2, st(t1, i + half + 1, ld(t1, i))))

\* fill_first_half, the other n: the second quadrant is the first one
\* reversed with the real part negated
RECURSIVE half_fill2(_, _, _, _, _)
half_fill2(n, half, i, j, t) ==
  IF i >= half THEN t
  ELSE Bind(st(t, j, Negated(n, ld(t, i))), LAMBDA t1 :
         half_fill2(n, half, i + 2, j - 2, st(t1, j + 1, ld(t1, i + 1))))

\* fill_first_half leaving the second quadrant as it is
fill_first_half_skipped(n, t) == t

\* fill_first_half(n, res)
fill_first_half(n, t) ==
  IF n % 4 = 0 THEN half_fill4(n, n \div 2, 0, t)
  ELSE half_fill2(n, n \div 2, 2, 2 * (n \div 2) - 2, t)

\* fill_second_half, n even: every slot of the first half negated
RECURSIVE second_fill_even(_, _, _)
second_fill_even(n, i, t) ==
  IF i >= n THEN t
  ELSE second_fill_even(n, i + 1, st(t, i + n, Negated(n, ld(t, i))))

\* fill_second_half, n odd: the first half reversed with the imaginary part
\* negated; -sin(x) = cos(x + pi/2) is the negated slot
RECURSIVE second_fill_odd(_, _, _, _)
second_fill_odd(n, i, j, t) ==
  IF i >= n THEN t
  ELSE Bind(st(t, j, ld(t, i)), LAMBDA t1 :
         second_fill_odd(n, i + 2, j - 2,
                         st(t1, j + 1, Negated(n, ld(t1, i + 1)))))

\* fill_second_half taking the branch of the even n for every n
fill_second_half_as_even(n, t) == second_fill_even(n, 0, t)

\* fill_second_half(n, res)
fill_second_half(n, t) ==
  IF n % 2 = 0 THEN second_fill_even(n, 0, t)
  ELSE second_fill_odd(n, 2, 2 * n - 2, t)

\* sincos_2pibyn_half(n, res)
sincos_2pibyn_half(n, t) ==
  IF n % 4 = 0
  THEN fill_first_half(n, fill_first_quadrant(n, calc_first_octant(n, n, 0, t)))
  ELSE IF n % 2 = 0
  THEN fill_first_half(n, calc_first_quadrant(n, t))
  ELSE calc_first_half(n, t)

\* sincos_2pibyn(n, half): the table after the constructor
sincos_2pibyn(n, half) ==
  Bind(sincos_2pibyn_half(n, NewTable(n)), LAMBDA t :
    IF half THEN t ELSE fill_second_half(n, t))

\* ===================================== the roots of unity of a generic stage
\* iwal+=l; if (iwal>ip) iwal-=ip;  (passg, radbg: ge is FALSE)
\* iang+=l; if (iang>=ip) iang-=ip; (radfg: ge is TRUE)
root_step_unwrapped(ge, ip, l, iang) == iang + l

root_step(ge, ip, l, iang) ==
  IF (IF ge THEN iang + l >= ip ELSE iang + l > ip)
  THEN iang + l - ip ELSE iang + l

\* cnt such steps in a row, each followed by a read of the table at the
\* index; loc.iang is the running index, loc.seq the indices read
RECURSIVE root_reads(_, _, _, _, _)
root_reads(ge, ip, l, cnt, loc) ==
  IF cnt = 0 THEN loc
  ELSE Bind(root_step(ge, ip, l, loc.iang), LAMBDA x :
         root_reads(ge, ip, l, cnt - 1,
                    [loc EXCEPT !.iang = x, !.seq = Append(@, x)]))

\* for (; j<limit; j+=step) with step reads in its body
RECURSIVE root_loop(_, _, _, _, _, _)
root_loop(ge, ip, l, limit, step, loc) ==
  IF loc.j < limit
  THEN root_loop(ge, ip, l, limit, step,
                 root_reads(ge, ip, l, step, [loc EXCEPT !.j = @ + step]))
  ELSE loc

\* the locals at the start of the loops over j: the reads at l and 2*l are
\* made, iwal = 2*l, j = 3
root_start(l) == [j |-> 3, iang |-> 2 * l, seq |-> <<>>, first |-> <<l, 2 * l>>]

\* passg, the iteration l of the loop over l: the indices at which wal is
\* read
passg_iwal(ip, l) ==
  Bind((ip + 1) \div 2, LAMBDA ipph :
    root_loop(FALSE, ip, l, ipph, 1,
      root_loop(FALSE, ip, l, ipph - 1, 2, root_start(l))))

\* radfg, the iteration l: the pairs csarr[2*iang], csarr[2*iang+1] read
radfg_iang(ip, l) ==
  Bind((ip + 1) \div 2, LAMBDA ipph :
    root_loop(TRUE, ip, l, ipph, 1,
      root_loop(TRUE, ip, l, ipph - 1, 2,
        root_loop(TRUE, ip, l, ipph - 3, 4, root_start(l)))))

\* radbg, the iteration l
radbg_iang(ip, l) ==
  Bind((ip + 1) \div 2, LAMBDA ipph :
    root_loop(FALSE, ip, l, ipph, 1,
      root_loop(FALSE, ip, l, ipph - 1, 2,
        root_loop(FALSE, ip, l, ipph - 3, 4, root_start(l)))))

\* the routine a plan of class c runs for the factor ip in direction bwd;
\* "none" if the factor has a routine of its own
generic_routine(c, bwd, ip) ==
  IF c = "cfftp" THEN (IF ip \in {2, 3, 4, 5, 7, 11} THEN "none" ELSE "passg")
  ELSE IF ip \in {2, 3, 4, 5} THEN "none"
  ELSE IF bwd THEN "radbg" ELSE "radfg"

\* ================================================= the tables of fftblue
\* coeff+=2*m-1; if (coeff>=2*n) coeff-=2*n;
blue_coeff_unwrapped(n, m, coeff) == coeff + 2 * m - 1

blue_coeff(n, m, coeff) ==
  IF coeff + 2 * m - 1 >= 2 * n THEN coeff + 2 * m - 1 - 2 * n
  ELSE coeff + 2 * m - 1

\* the loop that fills bk from the table tmp of 2n entries: b.t is bk, b.idx
\* the entries of tmp read, b.oob is set by a read outside of tmp
RECURSIVE blue_bk_loop(_, _, _, _, _)
blue_bk_loop(n, m, coeff, tmp, b) ==
  IF m >= n THEN b
  ELSE Bind(blue_coeff(n, m, coeff), LAMBDA c2 :
         Bind([t |-> st(st(b.t, 2 * m, ld(tmp, 2 * c2)),
                        2 * m + 1, ld(tmp, 2 * c2 + 1)),
               idx |-> Append(b.idx, c2),
               oob |-> b.oob \/ (2 * c2 + 1) \notin DOMAIN tmp.d],
              LAMBDA b2 : blue_bk_loop(n, m + 1, c2, tmp, b2)))

\* bk after the first loop of the constructor; bk[0] = 1, bk[1] = 0
fftblue_bk(n) ==
  Bind(sincos_2pibyn(2 * n, FALSE), LAMBDA tmp :
    blue_bk_loop(n, 1, 0, tmp,
      [t |-> st(st(NewTable(n), 0, Cos(2 * n, 0, 1)), 1, Sin(2 * n, 0, 1)),
       idx |-> <<>>, oob |-> FALSE]))

\* a slot of bkf before the transform: never stored to, the product of a
\* slot of bk (its value is v) and xn2, or 0.
BkfUnwritten == [k |-> "unwritten", v |-> Unwritten]
BkfScaled(v) == [k |-> "scaled", v |-> v]
BkfZero == [k |-> "zero", v |-> Unwritten]

\* bkf[m] = bkf[2*n2-m] = bk[m]*xn2 without the store to bkf[2*n2-m]
RECURSIVE blue_bkf_unmirrored(_, _, _, _, _)
blue_bkf_unmirrored(n, n2, m, bk, f) ==
  IF m >= 2 * n THEN f
  ELSE Bind(st(st(f, m, BkfScaled(bk[m])), m + 1, BkfScaled(bk[m + 1])),
            LAMBDA f2 : blue_bkf_unmirrored(n, n2, m + 2, bk, f2))

\* for (m=2; m<2*n; m+=2): bkf[m] = bkf[2*n2-m] = bk[m]*xn2 and
\* bkf[m+1] = bkf[2*n2-m+1] = bk[m+1]*xn2
RECURSIVE blue_bkf_mirror(_, _, _, _, _)
blue_bkf_mirror(n, n2, m, bk, f) ==
  IF m >= 2 * n THEN f
  ELSE Bind(st(st(st(st(f, 2 * n2 - m, BkfScaled(bk[m])),
                     m, BkfScaled(bk[m])),
                  2 * n2 - m + 1, BkfScaled(bk[m + 1])),
               m + 1, BkfScaled(bk[m + 1])),
            LAMBDA f2 : blue_bkf_mirror(n, n2, m + 2, bk, f2))

\* for (m=2*n; m<=(2*n2-2*n+1); ++m) bkf[m]=0.;
RECURSIVE blue_bkf_zero(_, _, _, _)
blue_bkf_zero(n, n2, m, f) ==
  IF m > 2 * n2 - 2 * n + 1 THEN f
  ELSE Bind(st(f, m, BkfZero), LAMBDA f2 : blue_bkf_zero(n, n2, m + 1, f2))

\* bkf when plan.forward is called on it
fftblue_bkf(n, n2, bk) ==
  blue_bkf_zero(n, n2, 2 * n,
    blue_bkf_mirror(n, n2, 2, bk,
      st(st([d |-> [i \in 0..(2 * n2 - 1) |-> BkfUnwritten], oob |-> FALSE],
            0, BkfScaled(bk[0])),
         1, BkfScaled(bk[1]))))

\* the tables the constructor of fftblue(n) has built when it calls
\* plan.forward: coeff is the sequence of the entries of tmp it read
fftblue_tables(n) ==
  Bind(good_size(n * 2 - 1), LAMBDA n2 :
    Bind(fftblue_bk(n), LAMBDA b :
      [n2 |-> n2, coeff |-> b.idx, bk |-> b.t.d,
       oob |-> b.oob \/ b.t.oob,
       bkf |-> fftblue_bkf(n, n2, b.t.d)]))

\* ============================================ the reads of comp_twiddle
\* cfftp::comp_twiddle, the entries of twid read for the factor of the slice
\* sl: twid[2*j*l1*i] and twid[2*j*l1*i+1] are the slots of the entry j*l1*i,
\* j in 1..ip-1, i in 1..ido-1; for ip > 11 the entries j*l1*ido, j < ip
cfftp_twid_reads(sl) ==
  {j * sl.l1 * i : j \in 1..(sl.fct - 1), i \in 1..(sl.ido - 1)}
    \cup (IF sl.fct > 11
          THEN {j * sl.l1 * sl.ido : j \in 0..(sl.fct - 1)} ELSE {})

\* the reads of rfftp::comp_twiddle with the loop over i running to ido-1
rfftp_twid_reads_whole_ido(length, sl, notlast) ==
  (IF notlast
   THEN {j * sl.l1 * i : j \in 1..(sl.fct - 1), i \in 1..(sl.ido - 1)}
   ELSE {})
    \cup (IF sl.fct > 5
          THEN {i * (length \div sl.fct) : i \in 1..(sl.fct \div 2)} ELSE {})

\* rfftp::comp_twiddle: the entries j*l1*i, j in 1..ip-1, i in 1..(ido-1)/2,
\* unless the factor is the last one; for ip > 5 the entries i*(length/ip),
\* i in 1..(ip>>1)
rfftp_twid_reads(length, sl, notlast) ==
  (IF notlast
   THEN {j * sl.l1 * i : j \in 1..(sl.fct - 1), i \in 1..((sl.ido - 1) \div 2)}
   ELSE {})
    \cup (IF sl.fct > 5
          THEN {i * (length \div sl.fct) : i \in 1..(sl.fct \div 2)} ELSE {})

\* the table twid of comp_twiddle and the entries read from it, factor by
\* factor
comp_twiddle_reads(c, o) ==
  [twid |-> sincos_2pibyn(o.n, c = "rfftp"),
   reads |-> [k \in 1..Len(o.slices) |->
                IF c = "cfftp" THEN cfftp_twid_reads(o.slices[k])
                ELSE rfftp_twid_reads(o.n, o.slices[k], k < Len(o.slices))]]

\* ================================================= the helpers by themselves
\* good_size(n) is called
GoodSize(n) ==
  /\ pc = "idle" /\ ev.fn = "none"
  /\ ev' = [fn |-> "good_size", arg |-> n, res |-> good_size(n)]
  /\ UNCHANGED <<pc, cls, obj, exc, calls, nested, nullidx, op, inp, buf,
                 afail, drv, thr>>

\* sincos_2pibyn twid(n, half) is constructed
Sincos(n, half) ==
  /\ pc = "idle" /\ ev.fn = "none"
  /\ ev' = [fn |-> "sincos_2pibyn", arg |-> n, half |-> half,
            res |-> sincos_2pibyn(n, half)]
  /\ UNCHANGED <<pc, cls, obj, exc, calls, nested, nullidx, op, inp, buf,
                 afail, drv, thr>>

\* a transform of the constructed plan runs the iteration l of the loop over
\* l of the generic routine of its k-th factor
GenericRoots(bwd, k, l) ==
  /\ pc = "built" /\ cls \in {"cfftp", "rfftp"} /\ ev.fn = "none"
  /\ k \in 1..Len(obj.fct)
  /\ generic_routine(cls, bwd, obj.fct[k]) # "none"
  /\ obj.fct[k] <= MaxRootIp
  /\ l \in 1..((obj.fct[k] + 1) \div 2 - 1)
  /\ ev' = [fn |-> generic_routine(cls, bwd, obj.fct[k]), arg |-> obj.fct[k],
            l |-> l,
            res |-> CASE generic_routine(cls, bwd, obj.fct[k]) = "passg" ->
                           passg_iwal(obj.fct[k], l)
                      [] generic_routine(cls, bwd, obj.fct[k]) = "radfg" ->
                           radfg_iang(obj.fct[k], l)
                      [] OTHER -> radbg_iang(obj.fct[k], l)]
  /\ UNCHANGED <<pc, cls, obj, exc, calls, nested, nullidx, op, inp, buf,
                 afail, drv, thr>>

\* fftblue(n) initialises bk and bkf
BlueTables(n) ==
  /\ pc = "idle" /\ ev.fn = "none"
  /\ ev' = [fn |-> "fftblue", arg |-> n, res |-> fftblue_tables(n)]
  /\ UNCHANGED <<pc, cls, obj, exc, calls, nested, nullidx, op, inp, buf,
                 afail, drv, thr>>

\* comp_twiddle of the constructed plan fills the twiddles from twid
CompTwiddle ==
  /\ pc = "built" /\ cls \in {"cfftp", "rfftp"} /\ ev.fn = "none"
  /\ obj.n > 1 /\ obj.n <= MaxTrigLen /\ Len(obj.slices) = Len(obj.fct)
  /\ ev' = [fn |-> "comp_twiddle", arg |-> obj.n,
            res |-> comp_twiddle_reads(cls, obj)]
  /\ UNCHANGED <<pc, cls, obj, exc, calls, nested, nullidx, op, inp, buf,
                 afail, drv, thr>>

\* multi_iter it(arr, idim) is constructed for an array of the given shape
\* and strides
MultiIter(shape, stride, idim) ==
  /\ pc = "idle" /\ ev.fn = "none"
  /\ Len(stride) = Len(shape) /\ idim < Len(shape)
  /\ ev' = [fn |-> "multi_iter", arg |-> idim,
            res |-> [it |-> multi_iter_ctor(multiarr(shape, stride), idim, 0),
                     visits |-> <<>>]]
  /\ UNCHANGED <<pc, cls, obj, exc, calls, nested, nullidx, op, inp, buf,
                 afail, drv, thr>>

\* one iteration of while (it.remaining()>0) { ... it.offset() ...;
\* it.advance(); }: visits records pos and offset() of the iterations
IterVisit ==
  /\ ev.fn = "multi_iter" /\ ev.res.it.rem > 0
  /\ ev' = [ev EXCEPT
              !.res.visits = Append(@, [pos |-> ev.res.it.pos,
                                        ofs |-> ev.res.it.ofs]),
              !.res.it = advance(@)]
  /\ UNCHANGED <<pc, cls, obj, exc, calls, nested, nullidx, op, inp, buf,
                 afail, drv, thr>>

\* fft<bwd>(c, fct) of the constructed fftblue fills akf and runs
\* plan.forward on it
FftAkf(c) ==
  /\ pc = "built" /\ cls = "fftblue" /\ ev.fn = "none"
  /\ \E akf \in {fft_akf(obj, c)} :
       ev' = [fn |-> "fft", arg |-> obj.n,
              res |-> [akf |-> akf,
                       trace |-> cfftp_forward(obj.plan, akf, 1, <<>>, 0).trace]]
  /\ UNCHANGED <<pc, cls, obj, exc, calls, nested, nullidx, op, inp, buf,
                 afail, drv, thr>>

\* the caller has taken the result
EvReturn ==
  /\ ev.fn # "none"
  /\ ev' = NoEval
  /\ UNCHANGED <<pc, cls, obj, exc, calls, nested, nullidx, op, inp, buf,
                 afail, drv, thr>>

\* the plans of every length up to MaxPlanLen, with memory for all of them
PlanClasses == {"cfftp", "rfftp", "fftblue", "pocketfft_c", "pocketfft_r"}

NextHelpers ==
  \/ /\ ev.fn = "none"
     /\ \E c \in PlanClasses, n \in 1..MaxPlanLen :
          Construct(c, ToNum(n), <<>>)
  \/ Destroy
  \/ \E n \in 1..(2 * MaxPlanLen) : GoodSize(n)
  \/ \E n \in 1..MaxTrigLen, half \in BOOLEAN : Sincos(n, half)
  \/ \E n \in 1..MaxBlueLen : BlueTables(n)
  \/ CompTwiddle
  \/ \E ndim \in 1..MaxIterDim :
       \E shape \in Shapes(ndim), stride \in StridesOf(ndim),
          idim \in 0..(MaxIterDim - 1) : MultiIter(shape, stride, idim)
  \/ IterVisit
  \/ /\ cls = "fftblue"
     /\ \E c \in InputsC(cls, obj.n) : FftAkf(c)
  \/ \E bwd \in BOOLEAN, k \in 1..NFCT, l \in 1..(MaxRootIp \div 2) :
       GenericRoots(bwd, k, l)
  \/ EvReturn

SpecHelpers == Init /\ [][NextHelpers]_vars

\* ================================================================= claims
\* z * (-i)^e
NegIPow(z, e) ==
  CASE e % 4 = 0 -> z
    [] e % 4 = 1 -> <<z[2], 0 - z[1]>>
    [] e % 4 = 2 -> <<0 - z[1], 0 - z[2]>>
    [] e % 4 = 3 -> <<0 - z[2], z[1]>>

\* sum over n >= from of x[n] * w^(n*k), w = exp(-2 pi i/N) (sign = 1) or
\* exp(2 pi i/N) (sign = 3), for N dividing 4
RECURSIVE DftSum(_, _, _, _, _)
DftSum(x, k, from, N, sign) ==
  IF from >= N THEN <<0, 0>>
  ELSE LET t == NegIPow(x[from], sign * (4 \div N) * from * k)
           r == DftSum(x, k, from + 1, N, sign)
       IN <<t[1] + r[1], t[2] + r[2]>>
NaiveDFT(x, k, N) == DftSum(x, k, 0, N, 1)
NaiveInverse(x, k, N) == DftSum(x, k, 0, N, 3)
Values(b) == [i \in DOMAIN b |-> b[i].v]

\* C2: the complex plan of length 4 has the single factor 4 with ido = 1 and
\* no twiddle entries; cfftp::forward with scale 1 returns the naive DFT
\* X[k] = sum_n x[n]*(-i)^(n*k) of every input with integer components, and
\* maps (1,0),(2,0),(3,0),(4,0) to (10,0),(-2,2),(-2,0),(-2,-2).
C2_ReferenceN4 ==
  (cls = "cfftp" /\ obj.n = 4 /\ pc \in {"built", "done"}) =>
    /\ obj.fct = <<4>>
    /\ Len(obj.slices) = 1
    /\ obj.slices[1].ido = 1 /\ obj.slices[1].twlen = 0
    /\ obj.mem.sz = 0
    /\ (pc = "done" /\ exc = "none" /\ op.dir = "forward" /\ op.fct = 1) =>
         /\ Len(op.trace) = 1
         /\ op.trace[1].ip = 4 /\ op.trace[1].ido = 1
         /\ \A k \in 0..3 : /\ buf[k].k = "num"
                             /\ buf[k].v = NaiveDFT(Values(inp), k, 4)
         /\ (Values(inp) = [i \in 0..3 |-> <<i + 1, 0>>]) =>
              Values(buf) = (0 :> <<10, 0>> @@ 1 :> <<-2, 2>> @@
                             2 :> <<-2, 0>> @@ 3 :> <<-2, -2>>)

C2_Witness ==
  /\ pc = "done" /\ cls = "cfftp" /\ obj.n = 4 /\ exc = "none"
  /\ op.dir = "forward" /\ op.fct = 1
  /\ Values(inp) = [i \in 0..3 |-> <<i + 1, 0>>]
  /\ buf[1].v = <<-2, 2>>

\* C4: for N = 1 every transform reached through a mixed-radix plan or a
\* dispatcher leaves the single sample equal to scale * input, and the plan
\* has no factor list and no twiddle table: none is built, none is read.
NoTables(p) ==
  p.fct = <<>> /\ p.nfct = 0 /\ p.mem = arr_empty /\ p.slices = <<>>
C4_LengthOne ==
  (cls \in {"cfftp", "rfftp", "pocketfft_c", "pocketfft_r"}
   /\ pc \in {"built", "done"} /\ PlanLen(cls, obj) = 1) =>
    /\ calls = <<>>
    /\ IF cls \in {"cfftp", "rfftp"} THEN NoTables(obj)
       ELSE obj.kind = "pack" /\ NoTables(obj.packplan)
    /\ (pc = "done" /\ op.dir \in {"forward", "backward"}) =>
         /\ exc = "none" /\ ~nullidx
         /\ op.trace = <<>>
         /\ DOMAIN buf = {0}
         /\ buf[0].k = "num"
         /\ buf[0].v = IF IsReal(cls) THEN op.fct * inp[0].v
                        ELSE <<op.fct * inp[0].v[1], op.fct * inp[0].v[2]>>

C4_Witness ==
  /\ pc = "done" /\ cls = "pocketfft_c" /\ obj.len = 1
  /\ op.dir = "backward" /\ op.fct = 2
  /\ inp[0].v = <<1, 1>> /\ buf[0].v = <<2, 2>>

\* the number of factors the factorization of a length >= 1 has: the fours,
\* a remaining two, and the odd primes with their multiplicity
RECURSIVE OddPrimeCount(_, _)
OddPrimeCount(m, d) ==
  IF m = 1 THEN 0
  ELSE IF m % d = 0 THEN 1 + OddPrimeCount(m \div d, d)
  ELSE OddPrimeCount(m, d + 2)
FactorCount(x) ==
  (x.p2 \div 2) + (x.p2 % 2) + x.p3 + OddPrimeCount(x.m, 5)

\* C7: the construction of a mixed-radix plan (complex or real) of a
\* length N >= 1 fails with "too many prime factors" exactly when the
\* factorization of N has more than NFCT = 25 factors, it succeeds when it
\* has at most 25 and no allocation fails, and at most 25 entries of the
\* factor array are ever written.
C7_FactorCap ==
  (cls \in {"cfftp", "rfftp"} /\ ~NIsZero(obj.length)) =>
    /\ Len(obj.fct) <= NFCT /\ obj.nfct = Len(obj.fct)
    /\ (pc \in {"built", "failed", "crashed"}) =>
         /\ (exc = "too many prime factors") <=> (FactorCount(obj.length) > NFCT)
         /\ (FactorCount(obj.length) > NFCT) => pc = "failed"
         /\ (FactorCount(obj.length) <= NFCT /\ ~afail) => pc = "built"

C7_Witness ==
  /\ pc = "failed" /\ cls = "rfftp" /\ exc = "too many prime factors"
  /\ FactorCount(obj.length) = NFCT + 1 /\ Len(obj.fct) = NFCT

\* ------------------------------------------------------- the packed layout
\* The slot-to-(bin, part) map of the packed real spectrum of length N, as
\* the interface states it: bin 0 and, for even N, bin N/2 have a real part
\* only.
Parts == {"r", "i"}
HasSlot(N, bin, part) ==
  bin \in 0..(N \div 2) /\ (part = "r" \/ (bin >= 1 /\ 2 * bin < N))
CCESlot(N, bin, part) ==
  IF bin = 0 THEN 0 ELSE IF part = "r" THEN 2 * bin - 1 ELSE 2 * bin
CCESlots(N) ==
  {s \in (0..(N \div 2)) \X Parts : HasSlot(N, s[1], s[2])}
\* the index of a part of a bin in an array of interleaved complex numbers
Interleaved(bin, part) == 2 * bin + (IF part = "r" THEN 0 ELSE 1)
Part(z, part) == IF part = "r" THEN z[1] ELSE z[2]
AsCmplx(x) == [i \in DOMAIN x |-> <<x[i], 0>>]
\* all N bins of the spectrum a packed buffer c stands for, X[N-k] = conj X[k]
PackedBins(c, N) ==
  [k \in 0..(N - 1) |->
     LET kk == IF 2 * k <= N THEN k ELSE N - k
         im == IF HasSlot(N, kk, "i") THEN c[CCESlot(N, kk, "i")] ELSE 0
     IN <<c[CCESlot(N, kk, "r")], IF 2 * k <= N THEN im ELSE 0 - im>>]
\* all N bins of the spectrum the bins 0..N/2 in d stand for
HalfBins(d, N) ==
  [k \in 0..(N - 1) |->
     LET kk == IF 2 * k <= N THEN k ELSE N - k
         im == IF HasSlot(N, kk, "i") THEN d[kk][2] ELSE 0
     IN <<d[kk][1], IF 2 * k <= N THEN im ELSE 0 - im>>]

BlueReal(dir, dir_r) ==
  \/ cls = "fftblue" /\ op.dir = dir_r
  \/ cls = "pocketfft_r" /\ obj.kind = "blue" /\ op.dir = dir

\* C3: the N slots of the packed real spectrum are slot 0 = X[0], slots
\* 2j-1 and 2j = Re X[j] and Im X[j] for 1 <= j, 2j < N, and slot N-1 =
\* Re X[N/2] for even N.  forward_r packs the complex result by this map;
\* backward_r fills every one of the 2N reals of its temporary from it, with
\* X[N-j] = conj X[j] and zero imaginary parts for bin 0 and bin N/2; the
\* loops of r2c and c2r move the bins 0..N/2 by it; and for the lengths
\* whose values are followed, the slots hold scale times the parts of the
\* naive DFT of the input, and the backward transforms return scale times
\* the naive inverse sum over the bins the slots stand for.
C3_CCELayout ==
  (pc = "done" /\ op.dir # "none") =>
    LET N == PlanLen(cls, obj)
        L == op.layout
        exact == cls \in {"rfftp", "pocketfft_r"} /\ N \in ExactLengths
                 /\ exc = "none"
    IN /\ {CCESlot(N, s[1], s[2]) : s \in CCESlots(N)} = 0..(N - 1)
       /\ Cardinality(CCESlots(N)) = N
       /\ BlueReal("forward", "forward_r") =>
            /\ DOMAIN L = 0..(N - 1)
            /\ \A s \in CCESlots(N) :
                 L[CCESlot(N, s[1], s[2])] = Interleaved(s[1], s[2])
       /\ BlueReal("backward", "backward_r") =>
            /\ DOMAIN L = 0..(2 * N - 1)
            /\ \A i \in 0..(2 * N - 1) :
                 LET k == i \div 2
                     part == IF i % 2 = 0 THEN "r" ELSE "i"
                     kk == IF 2 * k <= N THEN k ELSE N - k
                 IN /\ L[i].slot # -2
                    /\ IF HasSlot(N, kk, part)
                       THEN /\ L[i].slot = CCESlot(N, kk, part)
                            /\ L[i].neg = (2 * k > N /\ part = "i")
                       ELSE L[i].slot = -1 /\ ~L[i].neg
       /\ (op.dir = "r2c") =>
            /\ DOMAIN L = 0..(N \div 2)
            /\ \A bin \in 0..(N \div 2) :
                 /\ L[bin].re = CCESlot(N, bin, "r")
                 /\ L[bin].im = IF HasSlot(N, bin, "i")
                                THEN CCESlot(N, bin, "i") ELSE -1
       /\ (op.dir = "c2r") =>
            /\ DOMAIN L = 0..(N - 1)
            /\ \A s \in CCESlots(N) :
                 L[CCESlot(N, s[1], s[2])] = [bin |-> s[1], part |-> s[2]]
       /\ (exact /\ op.dir = "forward") =>
            \A s \in CCESlots(N) :
              /\ buf[CCESlot(N, s[1], s[2])].k = "num"
              /\ buf[CCESlot(N, s[1], s[2])].v =
                   op.fct * Part(NaiveDFT(AsCmplx(Values(inp)), s[1], N), s[2])
       /\ (exact /\ op.dir = "r2c") =>
            \A bin \in 0..(N \div 2) :
              /\ buf[bin].k = "num"
              /\ buf[bin].v =
                   CScale(NaiveDFT(AsCmplx(Values(inp)), bin, N), op.fct)
       /\ (exact /\ op.dir = "backward") =>
            \A n \in 0..(N - 1) :
              /\ buf[n].k = "num"
              /\ <<buf[n].v, 0>> =
                   CScale(NaiveInverse(PackedBins(Values(inp), N), n, N), op.fct)
       /\ (exact /\ op.dir = "c2r") =>
            \A n \in 0..(N - 1) :
              /\ buf[n].k = "num"
              /\ <<buf[n].v, 0>> =
                   CScale(NaiveInverse(HalfBins(Values(inp), N), n, N), op.fct)

C3_Witness ==
  /\ pc = "done" /\ cls = "pocketfft_r" /\ obj.len = 4 /\ exc = "none"
  /\ op.dir = "r2c" /\ op.fct = 1
  /\ Values(inp) = (0 :> 1 @@ 1 :> 4 @@ 2 :> 9 @@ 3 :> 16)
  /\ op.layout[1] = [re |-> 1, im |-> 2]
  /\ op.layout[2] = [re |-> 3, im |-> -1]
  /\ buf[1].v = <<-8, 12>>

\* ----------------------------------------------------------- normalization
MixedRadix ==
  \/ cls \in {"cfftp", "rfftp"}
  \/ cls \in {"pocketfft_c", "pocketfft_r"} /\ obj.kind = "pack"
Last(q) == q[Len(q)]
\* the element was multiplied by fact once, after all the stages of the
\* call, and before that only by the scale 1 of nested calls
ScaledAtEnd(e, fact) ==
  /\ e.sc # <<>>
  /\ Last(e.sc) = <<fact, Len(op.trace)>>
  /\ \A j \in 1..(Len(e.sc) - 1) : e.sc[j][1] = 1
NestedUnscaled == \A i \in DOMAIN nested : nested[i].fct = 1

\* C5 as stated: the scale is applied once to every output element after
\* the last stage, the nested calls use scale 1, and with scale == 1 no
\* scaling multiplication is performed at all.
C5_ScaleOnceOrNever ==
  (pc = "done" /\ exc = "none" /\ op.dir # "none") =>
    /\ NestedUnscaled
    /\ IF op.fct = 1
       THEN op.nmul = 0
       ELSE /\ op.nmul = PlanLen(cls, obj)
            /\ \A i \in DOMAIN buf : ScaledAtEnd(buf[i], op.fct)

\* C5, amended: the scale is applied once to every output element, after
\* the last stage and in one pass of N multiplications, no stage multiplies
\* by it and the nested calls of a Bluestein transform use scale 1; with
\* scale == 1 a mixed-radix transform of length N > 1 performs no scaling
\* multiplication, while a transform of length 1 and a Bluestein transform
\* multiply every output by the scale whatever its value.
C5_ScaleOnce ==
  (pc = "done" /\ exc = "none" /\ op.dir # "none") =>
    /\ NestedUnscaled
    /\ IF op.fct = 1 /\ MixedRadix /\ PlanLen(cls, obj) > 1
       THEN /\ op.nmul = 0
            /\ \A i \in DOMAIN buf : buf[i].sc = <<>>
       ELSE /\ op.nmul = PlanLen(cls, obj)
            /\ \A i \in DOMAIN buf : ScaledAtEnd(buf[i], op.fct)

C5_Witness ==
  /\ pc = "done" /\ exc = "none" /\ cls = "pocketfft_c" /\ obj.kind = "blue"
  /\ op.dir = "backward" /\ op.fct = 1
  /\ op.nmul = obj.len /\ Len(nested) = 2
  /\ buf[0].sc = <<<<1, Len(op.trace)>>>>

\* ------------------------------------------------------------- zero length
ZeroLengthErrors ==
  {"zero length FFT requested", "zero_sized FFT", "zero-length FFT requested"}
ZeroAxis(a) ==
  \E i \in 1..Len(a.axes) :
    a.axes[i] < a.ndim /\ a.shape[a.axes[i] + 1] = 0

\* C6: the construction of cfftp, rfftp, pocketfft_c or pocketfft_r with
\* N = 0 fails with the zero-length error before any helper is called and
\* before any allocation; no helper (factorize, largest_prime_factor,
\* cost_guess, good_size) is ever called with 0; pocketfft_complex never
\* holds a plan of length 0 and returns 1 whenever one of the transformed
\* axes has extent 0.
C6_ZeroLength ==
  /\ (cls \in {"cfftp", "rfftp", "pocketfft_c", "pocketfft_r"}
      /\ PlanLen(cls, obj) = 0) =>
       /\ pc = "failed"
       /\ exc \in ZeroLengthErrors
       /\ calls = <<>> /\ ~afail /\ ~nullidx
       /\ IF cls \in {"cfftp", "rfftp"} THEN obj.fct = <<>>
          ELSE obj.kind = "none"
  /\ \A i \in DOMAIN calls : calls[i][2] # 0
  /\ (pc \in {"drv_axis", "drv_slice", "returned"}
      /\ drv.plan.kind # "none") => drv.plan.len # 0
  /\ (pc = "returned" /\ ZeroAxis(drv.args)) => drv.ret = 1

C6_Witness ==
  /\ pc = "returned" /\ drv.ret = 1 /\ ~drv.ub
  /\ drv.args.nax <= drv.args.ndim /\ ZeroAxis(drv.args)
  /\ drv.exc = "zero-length FFT requested"
  /\ ~drv.didread /\ ~afail

\* ----------------------------------------------------------- invalid shape
\* C8 as stated: pocketfft_complex returns 1, without reading the input or
\* writing the output, when nax > ndim or when an entry of axes is not
\* below ndim.
C8_InvalidShape ==
  (pc = "returned"
   /\ (drv.args.nax > drv.args.ndim \/ OutOfRange(drv.args))) =>
    drv.ret = 1 /\ ~drv.didread /\ ~drv.didwrite

\* ------------------------------------------------------ allocation failure
\* C9 as stated: when an allocation of an operation returned null the
\* constructor or the transform raises an error and pocketfft_complex
\* returns 1, and no null buffer is ever indexed.
C9_AllocFailure ==
  /\ ~nullidx
  /\ (afail /\ pc \in {"built", "failed", "done"}) => exc # "none"
  /\ (afail /\ pc = "returned") => drv.ret = 1

\* ------------------------------------------------------------ stride units
\* C10 as stated: element i of a slice is read from, and written to, the
\* byte offset slice_offset + i*s, s the stride of the axis as passed in
\* stride_in (stride_out), whatever its sign.
C10_ByteStrides ==
  /\ \A i \in DOMAIN drv.raddr :
       drv.raddr[i] = Wrap(drv.rslice.ofs + i * drv.rslice.str)
  /\ \A i \in DOMAIN drv.waddr :
       drv.waddr[i] = Wrap(drv.wslice.ofs + i * drv.wslice.str)

\* ------------------------------------------------------- multi-axis driver
\* the offset of the slice at the position pos of the dimensions other than
\* axis (0-based), with the strides str: the sum of pos[j] * stride
RECURSIVE SliceOffset(_, _, _, _)
SliceOffset(pos, str, axis, j) ==
  IF j > Len(pos) THEN 0
  ELSE pos[j] * str[IF j <= axis THEN j ELSE j + 1]
       + SliceOffset(pos, str, axis, j + 1)

\* the byte offsets of the elements of that slice in an array of elements of
\* size elemsize
SliceOf(pos, str, axis, len, elemsize) ==
  [i \in 0..(len - 1) |->
     Wrap(elemsize * Wrap(SliceOffset(pos, str, axis, 1) + i * str[axis + 1]))]

\* C11: in a call of pocketfft_complex whose axes are all below ndim, every
\* slice of axes[0] is transformed with the caller's fct and every slice of
\* a later axis with 1; the slices of a later axis are gathered from the
\* output array at the offsets the output strides give, the same offsets
\* they are scattered to; the plan in use has the extent of the axis as its
\* length.
C11_MultiAxis ==
  (pc = "drv_slice" /\ drv.slices > 0 /\ ~OutOfRange(drv.args)) =>
    LET a == drv.args
        axis == a.axes[drv.iax + 1]
    IN /\ drv.last.fct = (IF drv.iax = 0 THEN a.fct ELSE 1)
       /\ drv.plan.kind # "none" /\ drv.plan.len = a.shape[axis + 1]
       /\ drv.last.dir = (IF a.forward THEN "forward" ELSE "backward")
       /\ drv.iax > 0 =>
            /\ drv.data_in = "out"
            /\ drv.raddr = SliceOf(drv.rslice.pos, a.stride_out, axis,
                                   a.shape[axis + 1], ElemSize(a.dp))
            /\ drv.raddr = drv.waddr

\* a slice of the second axis of a two-dimensional call with fct = 2 and
\* output strides that differ from the input strides
C11_Witness ==
  /\ pc = "drv_slice" /\ drv.slices > 0 /\ ~OutOfRange(drv.args)
  /\ drv.iax = 1 /\ drv.args.fct = 2 /\ drv.last.fct = 1
  /\ drv.args.ndim = 2 /\ drv.args.axes = <<1, 0>>
  /\ drv.args.shape = <<2, 2>>
  /\ drv.args.stride_in # drv.args.stride_out
  /\ drv.rslice.pos = <<1>> /\ drv.data_in = "out"

\* ------------------------------------------------------------ shared plans
\* C12: while two threads make transform calls on one plan, each with its
\* own buffer, the plan stays as its constructor left it (length, factors,
\* tables), and every call that has returned left in its buffer what the
\* same call leaves when it runs alone.
C12_SharedPlan ==
  pc = "shared" =>
    LET p0 == construct(cls, ToNum(PlanLen(cls, obj)), <<>>).obj
    IN /\ obj = p0
       /\ \A t \in Threads :
            thr[t].at = "ret" =>
              thr[t].c = transform(cls, p0, thr[t].dir, thr[t].x,
                                   thr[t].fact, <<>>).c

\* both calls have returned, with different arguments, from a plan with
\* more than one stage; the buffers hold numbers
C12_Witness ==
  /\ pc = "shared" /\ cls = "cfftp" /\ obj.n = 4
  /\ thr[1].at = "ret" /\ thr[2].at = "ret"
  /\ thr[1].dir = "forward" /\ thr[2].dir = "backward"
  /\ thr[1].fact = 1 /\ thr[2].fact = 2
  /\ thr[1].x # thr[2].x
  /\ thr[1].c # thr[2].c
  /\ \A i \in DOMAIN thr[2].c : thr[2].c[i].k = "num" /\ thr[2].c[i].st = 1

\* ---------------------------------------------------------- the dispatchers
\* the prime factors of n, the largest of them (1 for n = 1), and ten times
\* n * (the sum over the prime factors p of n, with multiplicity, of p if
\* p <= 5 and of 1.1*p otherwise)
IsPrime(p) == p > 1 /\ \A d \in 2..(p - 1) : d * d > p \/ p % d # 0
PrimeDivisors(n) == {p \in 2..n : n % p = 0 /\ IsPrime(p)}
LargestPrime(n) ==
  IF n = 1 THEN 1
  ELSE CHOOSE p \in PrimeDivisors(n) : \A q \in PrimeDivisors(n) : q <= p
RECURSIVE CostSum10(_, _)
CostSum10(n, P) ==
  IF P = {} THEN 0
  ELSE LET p == CHOOSE q \in P : TRUE
       IN Val(p, n) * (IF p <= 5 THEN 10 * p ELSE 11 * p)
          + CostSum10(n, P \ {p})
Cost10(n) == n * CostSum10(n, PrimeDivisors(n))

\* the dispatcher holds one plan, of its own length
OnePlan(o) ==
  /\ o.kind \in {"pack", "blue"}
  /\ o.kind = "pack" =>
       /\ "blueplan" \notin DOMAIN o
       /\ o.packplan.n = o.len
  /\ o.kind = "blue" =>
       /\ "packplan" \notin DOMAIN o
       /\ o.blueplan.n = o.len

\* the rule: mixed radix below 50 and when the largest prime factor is at
\* most the square root; otherwise Bluestein iff
\* 1.5 * 2 * cost_guess(good_size(2N-1)) < cost_guess(N) / den
Selected(N, den) ==
  IF N < 50 \/ LargestPrime(N) * LargestPrime(N) <= N THEN "pack"
  ELSE IF den * 3 * Cost10(good_size(2 * N - 1)) < Cost10(N) THEN "blue"
  ELSE "pack"

\* C13: pocketfft_c(N), N >= 1, holds the mixed-radix plan when N < 50 or
\* the largest prime factor of N is at most sqrt(N); otherwise it holds the
\* Bluestein plan iff 1.5*2*cost_guess(good_size(2N-1)) < cost_guess(N), and
\* the mixed-radix plan otherwise; it holds exactly one of the two.
C13_ComplexDispatch ==
  (cls = "pocketfft_c" /\ pc = "built") =>
    /\ obj.kind = Selected(obj.len, 1)
    /\ OnePlan(obj)

\* a composite length that takes the Bluestein plan
C13_Witness ==
  /\ cls = "pocketfft_c" /\ pc = "built"
  /\ obj.len = 526 /\ obj.kind = "blue" /\ obj.blueplan.n2 = 1056

\* C14 as stated: pocketfft_r(N) selects by the rule of pocketfft_c, with
\* cost_guess(N) compared as it is.
C14_RealDispatchUnscaled ==
  (cls = "pocketfft_r" /\ pc = "built") => obj.kind = Selected(obj.len, 1)

\* C14: pocketfft_r(N), N >= 1, holds the mixed-radix plan when N < 50 or
\* the largest prime factor of N is at most sqrt(N); otherwise it holds the
\* Bluestein plan iff 1.5*2*cost_guess(good_size(2N-1)) < 0.5*cost_guess(N),
\* and the mixed-radix plan otherwise; it holds exactly one of the two.
C14_RealDispatch ==
  (cls = "pocketfft_r" /\ pc = "built") =>
    /\ obj.kind = Selected(obj.len, 2)
    /\ OnePlan(obj)

\* a length for which the halved cost decides: pocketfft_c takes the
\* Bluestein plan for 89, pocketfft_r the mixed-radix plan
C14_Witness ==
  /\ cls = "pocketfft_r" /\ pc = "built"
  /\ obj.len = 89 /\ obj.kind = "pack"
  /\ Selected(89, 1) = "blue"

\* C15: the dispatchers of length 541 hold the Bluestein plan and those of
\* length 540 the mixed-radix plan.
C15_ReferenceLengths ==
  (cls \in {"pocketfft_c", "pocketfft_r"} /\ pc = "built") =>
    /\ obj.len = 541 => obj.kind = "blue"
    /\ obj.len = 540 => obj.kind = "pack"

C15_Witness ==
  /\ cls = "pocketfft_r" /\ pc = "built" /\ exc = "none"
  /\ obj.len = 541 /\ obj.kind = "blue" /\ obj.blueplan.n2 = 1089

\* ---------------------------------------------------------------- good_size
\* m has no prime factor other than 2, 3, 5, 7 and 11
Smooth11(m) == Strip(11, Strip(7, Strip(5, Strip(3, Strip(2, m))))) = 1

\* C16: good_size(N), N >= 1, is the smallest M >= N of the form
\* 2^a 3^b 5^c 7^d 11^e; it is below 2N when N > 12, and good_size of it is
\* itself.
C16_GoodSize ==
  ev.fn = "good_size" =>
    /\ ev.res >= ev.arg
    /\ Smooth11(ev.res)
    /\ \A k \in ev.arg..(ev.res - 1) : ~Smooth11(k)
    /\ ev.arg > 12 => ev.res < 2 * ev.arg
    /\ good_size(ev.res) = ev.res

\* the argument the Bluestein plan of length 541 passes
C16_Witness ==
  /\ ev.fn = "good_size" /\ ev.arg = 2 * 541 - 1 /\ ev.res = 1089

\* ------------------------------------------------------------ factorization
RECURSIVE Product(_)
Product(f) == IF f = <<>> THEN 1 ELSE Head(f) * Product(Tail(f))

\* C17: the factors stored by a plan of length N >= 2 (cfftp and rfftp)
\* multiply to N; each is 4, 2 or an odd prime, and at most one is 2; the
\* first is 2 iff the exponent of 2 in N is odd; the odd factors come after
\* the even ones, in non-decreasing order.
C17_Factorization ==
  (cls \in {"cfftp", "rfftp"} /\ pc = "built" /\ obj.n >= 2) =>
    LET f == obj.fct
    IN /\ Len(f) = obj.nfct /\ Len(f) >= 1
       /\ Product(f) = obj.n
       /\ \A i \in 1..Len(f) :
            f[i] = 4 \/ f[i] = 2 \/ (f[i] % 2 = 1 /\ IsPrime(f[i]))
       /\ Cardinality({i \in 1..Len(f) : f[i] = 2}) <= 1
       /\ f[1] = 2 <=> Val(2, obj.n) % 2 = 1
       /\ \A i, j \in 1..Len(f) :
            (i < j /\ f[i] % 2 = 1) => (f[j] % 2 = 1 /\ f[i] <= f[j])

\* 504 = 2^3 * 3^2 * 7: the factor 2 was swapped with the 4 at the front
C17_Witness ==
  /\ cls = "rfftp" /\ pc = "built"
  /\ obj.n = 504 /\ obj.fct = <<2, 4, 3, 3, 7>>

\* ---------------------------------------------------------- twiddle storage
\* the blocks of mem a plan hands out, in the order of the factors: per
\* factor the block of (ip-1)*(ido-1) entries behind tw and, for ip > 11
\* (cfftp, ip entries) or ip > 5 (rfftp, 2*ip entries), the block behind
\* tws; st: the indices the constructor stores through the pointer
StageBlock(real, sl) ==
  [ofs |-> sl.tw, len |-> (sl.fct - 1) * (sl.ido - 1),
   st |-> IF sl.tw < 0 THEN {}
          ELSE IF real THEN rfftp_tw_stores(sl.fct, sl.ido)
          ELSE cfftp_tw_stores(sl.fct, sl.ido)]
ExtraBlock(real, sl) ==
  IF sl.fct > (IF real THEN 5 ELSE 11)
  THEN <<[ofs |-> sl.tws, len |-> IF real THEN 2 * sl.fct ELSE sl.fct,
          st |-> IF real THEN rfftp_tws_stores(sl.fct)
                 ELSE cfftp_tws_stores(sl.fct)]>>
  ELSE <<>>
RECURSIVE Blocks(_, _)
Blocks(real, sl) ==
  IF sl = <<>> THEN <<>>
  ELSE <<StageBlock(real, Head(sl))>> \o ExtraBlock(real, Head(sl))
       \o Blocks(real, Tail(sl))
RECURSIVE TotalLen(_)
TotalLen(b) == IF b = <<>> THEN 0 ELSE Head(b).len + TotalLen(Tail(b))

\* C18: in a plan of length N >= 2 (cfftp and rfftp) the blocks handed out
\* while the twiddles are computed have lengths that sum to twsize(), the
\* size of mem; they lie in mem, no two of them overlap, and every store
\* through tw or tws goes to an index of its block.
C18_TwiddleStorage ==
  (cls \in {"cfftp", "rfftp"} /\ pc = "built" /\ obj.n >= 2) =>
    LET b == Blocks(cls = "rfftp", obj.slices)
    IN /\ Len(obj.slices) = obj.nfct
       /\ TotalLen(b) = obj.mem.sz
       /\ \A i \in 1..Len(b) :
            /\ b[i].len > 0 => (b[i].ofs >= 0 /\ b[i].ofs + b[i].len <= obj.mem.sz)
            /\ \A x \in b[i].st : 0 <= x /\ x < b[i].len
       /\ \A i, j \in 1..Len(b) :
            (i < j /\ b[i].len > 0 /\ b[j].len > 0) =>
              b[i].ofs + b[i].len <= b[j].ofs
       /\ \A k \in 1..Len(obj.slices) :
            obj.slices[k].tws >= 0 <=>
              obj.slices[k].fct > (IF cls = "rfftp" THEN 5 ELSE 11)

\* 442 = 2 * 13 * 17: two factors of the complex plan have a block behind
\* tws, after stage blocks that are not empty
C18_Witness ==
  /\ cls = "cfftp" /\ pc = "built" /\ obj.n = 442
  /\ obj.fct = <<2, 13, 17>>
  /\ obj.slices[2].tws = obj.slices[2].tw + 12 * 16
  /\ obj.slices[3].tws = obj.mem.sz - 17
  /\ obj.mem.sz = 220 + 12 * 16 + 13 + 17

\* ------------------------------------------------------------- trig tables
\* the slot that holds cos(2*pi*k/n): the angle is 4k units of 2*pi/(4n)
CosSlot(n, k) == IF 4 * k <= 2 * n THEN 4 * k ELSE 4 * n - 4 * k

\* the slot that holds sin(2*pi*k/n) = cos(2*pi*k/n - pi/2)
SinSlot(n, k) ==
  IF 4 * k <= n THEN n - 4 * k
  ELSE IF 4 * k <= 3 * n THEN 4 * k - n
  ELSE 5 * n - 4 * k

\* the entry k of the table ev.res is (cos, sin) of 2*pi*k/n
EntryDenotes(k) ==
  /\ ev.res.d[2 * k] = CosSlot(ev.arg, k)
  /\ ev.res.d[2 * k + 1] = SinSlot(ev.arg, k)

\* C19: sincos_2pibyn(N, false) stores into every one of the 2N slots and
\* into no other place, the entry k is (cos, sin) of 2*pi*k/N for every k in
\* 0..N-1, and for N = 1 the table is the one entry (1, 0).
C19_FullTable ==
  (ev.fn = "sincos_2pibyn" /\ ~ev.half) =>
    /\ ~ev.res.oob
    /\ DOMAIN ev.res.d = 0..(2 * ev.arg - 1)
    /\ \A i \in DOMAIN ev.res.d : ev.res.d[i] # Unwritten
    /\ \A k \in 0..(ev.arg - 1) : EntryDenotes(k)
    /\ ev.arg = 1 => ev.res.d[0] = 0 /\ ev.res.d[1] = 1

\* the full table of a length whose first octant is computed in blocks and
\* whose quarter point is the constant: the entry 29 of 32 is in the last
\* octant
C19_Witness ==
  /\ ev.fn = "sincos_2pibyn" /\ ~ev.half /\ ev.arg = 32
  /\ ev.res.d[2 * 29] = 12 /\ ev.res.d[2 * 29 + 1] = 44
  /\ ev.res.d[2 * 4] = 16 /\ ev.res.d[2 * 4 + 1] = 16

\* C20 as stated: sincos_2pibyn(N, true) produces the entries of every k in
\* 0..N/2, the last one included.
C20_HalfTableInclusive ==
  (ev.fn = "sincos_2pibyn" /\ ev.half) =>
    \A k \in 0..(ev.arg \div 2) : EntryDenotes(k)

\* C20: sincos_2pibyn(N, true) produces the entries of every k with 2k < N,
\* which for odd N are the k in 0..N/2; for even N the entry N/2 is not
\* produced: its slots are never stored into when 4 divides N, and keep the
\* (1, 0) with which the first octant starts otherwise.
C20_HalfTable ==
  (ev.fn = "sincos_2pibyn" /\ ev.half) =>
    /\ ~ev.res.oob
    /\ \A k \in 0..(ev.arg - 1) : 2 * k < ev.arg => EntryDenotes(k)
    /\ ev.arg % 4 = 0 =>
         /\ ev.res.d[ev.arg] = Unwritten
         /\ ev.res.d[ev.arg + 1] = Unwritten
    /\ ev.arg % 4 = 2 =>
         /\ ev.res.d[ev.arg] = CosSlot(ev.arg, 0)
         /\ ev.res.d[ev.arg + 1] = SinSlot(ev.arg, 0)

\* the half table of 30: the entry 14 is the reflection of the entry 1, and
\* the slots of the entry 15 hold (1, 0)
C20_Witness ==
  /\ ev.fn = "sincos_2pibyn" /\ ev.half /\ ev.arg = 30
  /\ ev.res.d[2 * 14] = 56 /\ ev.res.d[2 * 14 + 1] = 26
  /\ ev.res.d[30] = 0 /\ ev.res.d[31] = 30

\* ------------------------------------------------------------- stage order
\* the position in the stored factor list of the factor the i-th stage of
\* the finished transform used
StoredIndex(i) ==
  IF cls = "rfftp" /\ op.dir = "forward" THEN Len(obj.fct) + 1 - i ELSE i

\* a transform of a mixed-radix plan has run all of its stages
StagesRun ==
  /\ pc = "done" /\ cls \in {"cfftp", "rfftp"} /\ exc = "none" /\ obj.n > 1

\* C21: the complex transform and the real backward transform take the
\* stored factors from the first to the last, the real forward transform
\* from the last to the first; every stage is run with l1 * ip * ido = N,
\* l1 the product of the factors stored before its own, and with the l1 and
\* ido for which comp_twiddle filled the table of its factor.
C21_StageOrder ==
  StagesRun =>
    /\ Len(op.trace) = Len(obj.fct)
    /\ \A i \in 1..Len(op.trace) :
         LET k == StoredIndex(i)
             r == op.trace[i]
         IN /\ r.ip = obj.fct[k]
            /\ r.l1 * r.ip * r.ido = obj.n
            /\ r.l1 = Product(SubSeq(obj.fct, 1, k - 1))
            /\ r.l1 = obj.slices[k].l1
            /\ r.ido = obj.slices[k].ido

\* the real forward transform of length 24, stored factors 2, 4, 3: the
\* stages are those of 3, 4, 2
C21_Witness ==
  /\ StagesRun /\ cls = "rfftp" /\ op.dir = "forward" /\ obj.n = 24
  /\ obj.fct = <<2, 4, 3>>
  /\ [i \in 1..3 |-> <<op.trace[i].ip, op.trace[i].l1, op.trace[i].ido>>]
       = <<<<3, 8, 1>>, <<4, 2, 3>>, <<2, 1, 12>>>>

\* ------------------------------------------------------ source/destination
\* the buffer the pointer p1 of the pass s designates
Designated(s) == IF s.p1 = "c" THEN s.c ELSE s.ch

\* thread t runs one stage in this step, and the loop ends in this step
StageStep(t) ==
  /\ thr[t].at = "loop" /\ thr'[t].at = "loop" /\ thr'[t].k1 = thr[t].k1 + 1
FinishStep(t) == thr[t].at = "loop" /\ thr'[t].at = "tail"

\* the stage that was run by the step leaves its result in its source
GenericInPlace(t) ==
  LET r == Last(thr'[t].s.trace)
  IN r.generic /\ ~(cls = "rfftp" /\ thr[t].bwd)

\* the buffer b holds the output of a stage run on src
OutputOf(b, src) ==
  /\ DOMAIN b = DOMAIN src
  /\ \A i \in DOMAIN b :
       /\ b[i].st = src[0].st + 1
       /\ b[i].k \in {"num", "x"}

\* C22: in pass_all, rfftp::forward and rfftp::backward every stage leaves
\* p1 designating the buffer with its output: passg and radfg leave the
\* output in their source and p1 where it was, every other routine writes to
\* the buffer p2 designated and p1 is moved to it; and after the loop the
\* buffer of the caller is what p1 designates, multiplied by the scale.
C22_Toggling ==
  [][\A t \in Threads :
       /\ StageStep(t) =>
            /\ OutputOf(Designated(thr'[t].s), Designated(thr[t].s))
            /\ Last(thr'[t].s.trace).src = thr[t].s.p1
            /\ (thr'[t].s.p1 = thr[t].s.p1) <=> GenericInPlace(t)
       /\ FinishStep(t) =>
            thr'[t].s.c =
              [i \in DOMAIN thr[t].s.c |->
                 IF thr[t].pf = 1 THEN Designated(thr[t].s)[i]
                 ELSE IF cls = "rfftp"
                 THEN RScaleElem(Designated(thr[t].s)[i], thr[t].pf)
                 ELSE CScaleElem(Designated(thr[t].s)[i], thr[t].pf)]]_vars

\* the real forward transform of length 14 has run radfg on the caller's
\* buffer and radf2 from there to the scratch buffer, which p1 designates
C22_Witness ==
  \E t \in Threads :
    /\ cls = "rfftp" /\ thr[t].at = "loop" /\ ~thr[t].bwd /\ thr[t].k1 = 3
    /\ thr[t].s.trace[1].ip = 7 /\ thr[t].s.trace[1].generic
    /\ thr[t].s.trace[1].src = "c" /\ thr[t].s.trace[2].src = "c"
    /\ thr[t].s.p1 = "ch" /\ thr[t].s.ch[0].st = 2

\* -------------------------------------------------------------- root index
\* the generic routines
GenericRoutines == {"passg", "radfg", "radbg"}

\* C23: in passg, radfg and radbg, for every factor ip a plan hands to them
\* and every l in 1..(ip+1)/2-1, the table of the ip roots is read inside
\* 0..ip-1 only: at l, at 2l, and at every value of the running index, which
\* is the multiple of l modulo ip; the test with '>' never leaves the index
\* at ip, and it gives the sequence the test with '>=' gives.
C23_RootIndex ==
  ev.fn \in GenericRoutines =>
    /\ ev.res.first = <<ev.l, 2 * ev.l>>
    /\ \A i \in 1..2 : ev.res.first[i] \in 0..(ev.arg - 1)
    /\ Len(ev.res.seq) = (ev.arg + 1) \div 2 - 3
    /\ \A i \in 1..Len(ev.res.seq) :
         /\ ev.res.seq[i] \in 0..(ev.arg - 1)
         /\ ev.res.seq[i] = ((i + 2) * ev.l) % ev.arg
    /\ radbg_iang(ev.arg, ev.l) = radfg_iang(ev.arg, ev.l)
    /\ ev.fn = "passg" =>
         passg_iwal(ev.arg, ev.l).seq = radfg_iang(ev.arg, ev.l).seq

\* passg for the factor 13 of a complex plan, l = 6: the index passes 13
\* twice
C23_Witness ==
  /\ ev.fn = "passg" /\ ev.arg = 13 /\ ev.l = 6 /\ cls = "cfftp"
  /\ ev.res.seq = <<5, 11, 4, 10>>

\* --------------------------------------------------------- Bluestein tables
\* the slots of the entry k of bkf
BkfRe(k) == ev.res.bkf.d[2 * k]
BkfIm(k) == ev.res.bkf.d[2 * k + 1]

\* what the code leaves of C24 before the rule for the mirrored entries:
\* every slot is stored to, the entries below N are those of bk times 1/M
BkfHead ==
  /\ ~ev.res.bkf.oob
  /\ DOMAIN ev.res.bkf.d = 0..(2 * ev.res.n2 - 1)
  /\ \A i \in DOMAIN ev.res.bkf.d : ev.res.bkf.d[i].k # "unwritten"
  /\ \A k \in 0..(ev.arg - 1) :
       /\ BkfRe(k) = BkfScaled(ev.res.bk[2 * k])
       /\ BkfIm(k) = BkfScaled(ev.res.bk[2 * k + 1])
  /\ \A k \in ev.arg..(ev.res.n2 - ev.arg) :
       BkfRe(k) = BkfZero /\ BkfIm(k) = BkfZero

\* C24 as stated: the entry M-k is the entry k with the sign of the
\* imaginary part flipped, for k in 1..N-1.
C24_BkfMirrorFlipped ==
  ev.fn = "fftblue" =>
    /\ BkfHead
    /\ \A k \in 1..(ev.arg - 1) :
         /\ BkfRe(ev.res.n2 - k) = BkfRe(k)
         /\ BkfIm(ev.res.n2 - k) =
              BkfScaled(Negated(2 * ev.arg, BkfIm(k).v))

\* C24: when the constructor of fftblue calls plan.forward, all M complex
\* slots of bkf have been stored to, M = good_size(2N-1): the entry k is
\* bk[k]/M for k in 0..N-1, the entry M-k is equal to the entry k, real and
\* imaginary part, for k in 1..N-1, and every other entry is zero.
C24_BkfMirror ==
  ev.fn = "fftblue" =>
    /\ BkfHead
    /\ ev.res.n2 = good_size(2 * ev.arg - 1)
    /\ \A k \in 1..(ev.arg - 1) :
         /\ BkfRe(ev.res.n2 - k) = BkfRe(k)
         /\ BkfIm(ev.res.n2 - k) = BkfIm(k)

\* N = 5, M = 9: no entry is zero; the entry 1 is exp(i*pi/5), whose
\* imaginary part is not 0, and the entry 8 is the same
C24_Witness ==
  /\ ev.fn = "fftblue" /\ ev.arg = 5 /\ ev.res.n2 = 9
  /\ BkfIm(1) = BkfScaled(Sin(10, 1, 10))
  /\ BkfIm(8) = BkfIm(1)
  /\ BkfIm(1) # BkfScaled(Negated(10, BkfIm(1).v))

\* C25: for every m in 0..N-1 the entry m of bk is the entry m*m mod 2N of
\* the trig table of 2N entries: the running coeff is m*m mod 2N at every
\* step and inside 0..2N-1, and no read leaves the table.
C25_ChirpIndex ==
  ev.fn = "fftblue" =>
    /\ ~ev.res.oob
    /\ Len(ev.res.coeff) = ev.arg - 1
    /\ \A m \in 1..(ev.arg - 1) :
         /\ ev.res.coeff[m] = (m * m) % (2 * ev.arg)
         /\ ev.res.coeff[m] \in 0..(2 * ev.arg - 1)
    /\ \A m \in 0..(ev.arg - 1) :
         LET tmp == sincos_2pibyn(2 * ev.arg, FALSE).d
             e == (m * m) % (2 * ev.arg)
         IN /\ ev.res.bk[2 * m] = tmp[2 * e]
            /\ ev.res.bk[2 * m + 1] = tmp[2 * e + 1]
            /\ ev.res.bk[2 * m] = CosSlot(2 * ev.arg, e)
            /\ ev.res.bk[2 * m + 1] = SinSlot(2 * ev.arg, e)

\* N = 7: the squares 1, 4, 9, 16, 25, 36 modulo 14
C25_Witness ==
  /\ ev.fn = "fftblue" /\ ev.arg = 7
  /\ ev.res.coeff = <<1, 4, 9, 2, 11, 8>>

\* ------------------------------------------------------ the nested plan
\* the plan of class fftblue that is constructed, or the one inside the
\* constructed dispatcher
BluePlanOf ==
  IF cls = "fftblue" THEN obj ELSE obj.blueplan
HasBluePlan ==
  /\ pc = "built"
  /\ \/ cls = "fftblue"
     \/ cls \in {"pocketfft_c", "pocketfft_r"} /\ obj.kind = "blue"

\* C26: the plan nested in a Bluestein plan of length N has the length
\* M = good_size(2N-1) >= 2N-1 and no factor other than 2, 3, 4, 5, 7 and
\* 11, so that no stage of it is run by passg; the buffer akf of a transform
\* has M complex slots, of which the slots N..M-1 are zero (for a finite
\* c[0]) when the first nested transform is called.
C26_NestedPlan ==
  /\ HasBluePlan =>
       /\ BluePlanOf.n2 = good_size(2 * BluePlanOf.n - 1)
       /\ BluePlanOf.n2 >= 2 * BluePlanOf.n - 1
       /\ BluePlanOf.plan.n = BluePlanOf.n2
       /\ Product(BluePlanOf.plan.fct) = BluePlanOf.n2
       /\ \A i \in 1..Len(BluePlanOf.plan.fct) :
            /\ BluePlanOf.plan.fct[i] \in {2, 3, 4, 5, 7, 11}
            /\ generic_routine("cfftp", FALSE, BluePlanOf.plan.fct[i]) = "none"
  /\ (ev.fn = "fft" /\ cls = "fftblue") =>
       /\ DOMAIN ev.res.akf = 0..(obj.n2 - 1)
       /\ \A m \in obj.n..(obj.n2 - 1) :
            ev.res.akf[m].k = "num" /\ ev.res.akf[m].v = CZero
       /\ \A m \in 0..(obj.n - 1) : ev.res.akf[m].k = "x"
       /\ Len(ev.res.trace) = Len(obj.plan.fct)
       /\ \A i \in 1..Len(ev.res.trace) : ~ev.res.trace[i].generic

\* the Bluestein plan of length 541: M = 1089 = 3*3*11*11, the slots 541
\* to 1088 of akf are zero
C26_Witness ==
  /\ cls = "fftblue" /\ ev.fn = "fft" /\ obj.n = 541 /\ obj.n2 = 1089
  /\ obj.plan.fct = <<3, 3, 11, 11>>
  /\ ev.res.akf[541].v = CZero /\ ev.res.akf[1088].k = "num"
  /\ Len(ev.res.trace) = 4

\* ----------------------------------------------------------- generic radix
\* a mixed-radix plan is constructed
PlanBuilt == pc = "built" /\ cls \in {"cfftp", "rfftp"}

\* the factors with a routine of their own in the plan of class c
HandFused(c) == IF c = "cfftp" THEN {2, 3, 4, 5, 7, 11} ELSE {2, 3, 4, 5}

\* the slots of the table of roots of the factor ip: ip complex entries in
\* the complex plan, 2*ip reals in the real plan
RootSlots(c, ip) == IF c = "cfftp" THEN 0..(ip - 1) ELSE 0..(2 * ip - 1)
RootStores(c, ip) ==
  IF c = "cfftp" THEN cfftp_tws_stores(ip) ELSE rfftp_tws_stores(ip)

\* C27: a factor ip that a transform hands to passg (complex plan) or to
\* radfg and radbg (real plan) is an odd prime, at least 13 in the complex
\* and at least 7 in the real plan, and the constructor has assigned its tws
\* and stored to every slot of it, inside mem; every other factor is the
\* radix of the routine it is handed to.
C27_GenericRadix ==
  /\ PlanBuilt =>
       \A k \in 1..Len(obj.fct), bwd \in BOOLEAN :
         LET ip == obj.fct[k]
             sl == obj.slices[k]
         IN IF generic_routine(cls, bwd, ip) # "none"
            THEN /\ IsPrime(ip) /\ ip % 2 = 1
                 /\ ip >= (IF cls = "cfftp" THEN 13 ELSE 7)
                 /\ sl.tws >= 0
                 /\ RootStores(cls, ip) = RootSlots(cls, ip)
                 /\ sl.twslen = Cardinality(RootSlots(cls, ip))
                 /\ sl.tws + sl.twslen <= obj.mem.sz
            ELSE ip \in HandFused(cls)
  /\ (PlanBuilt /\ ev.fn \in GenericRoutines) =>
       /\ IsPrime(ev.arg) /\ ev.arg % 2 = 1
       /\ \E k \in 1..Len(obj.fct) :
            obj.fct[k] = ev.arg /\ obj.slices[k].tws >= 0

\* radbg runs for the factor 7 of the real plan of length 14, whose tws are
\* the 14 reals after the 6 twiddles of the factor 2
C27_Witness ==
  /\ PlanBuilt /\ cls = "rfftp" /\ obj.n = 14 /\ obj.fct = <<2, 7>>
  /\ ev.fn = "radbg" /\ ev.arg = 7
  /\ obj.slices[2].tws = 6 /\ obj.slices[2].twslen = 14 /\ obj.mem.sz = 20

\* ------------------------------------------------ odd ido for odd radices
\* the indices of wa a real butterfly of radix ip reads when called with
\* ido: WA(x,i-2) and WA(x,i-1), x < ip-1, in the loops "for (i=2; i<ido;
\* i+=2)" of radf2..radf5 and radb2..radb5, wa[idij] and wa[idij+1] with
\* idij = (j-1)*(ido-1), += 2 in the loops "for (i=1; i<=ido-2; i+=2)" of
\* radfg and radbg
rad_wa_reads(ip, ido) ==
  IF ip \in {2, 3, 4, 5}
  THEN UNION {{(i - 2) + x * (ido - 1), (i - 1) + x * (ido - 1)} :
                x \in 0..(ip - 2), i \in {i2 \in 2..(ido - 1) : i2 % 2 = 0}}
  ELSE IF ido > 1
       THEN UNION {{(j - 1) * (ido - 1) + (i - 1), (j - 1) * (ido - 1) + i} :
                     j \in 1..(ip - 1),
                     i \in {i1 \in 1..(ido - 2) : i1 % 2 = 1}}
       ELSE {}

\* the first indices a of CC(a,.,.) a real butterfly covers: 0 in the loop
\* over k alone, ido-1 in the block "if ((ido&1)==0)" that only radf2,
\* radf4, radb2 and radb4 have, and the pairs of the loops over i
rad_columns(ip, ido) ==
  {0} \cup (IF ip \in {2, 4} /\ ido % 2 = 0 THEN {ido - 1} ELSE {})
      \cup (IF ip \in {2, 3, 4, 5}
            THEN UNION {{i - 1, i} : i \in {i2 \in 2..(ido - 1) : i2 % 2 = 0}}
            ELSE UNION {{i, i + 1} : i \in {i1 \in 1..(ido - 2) : i1 % 2 = 1}})

\* a real plan of a length above 1 that is held exactly is constructed, or
\* has run a transform
RealPlan ==
  /\ cls = "rfftp" /\ pc \in {"built", "done"} /\ obj.n > 1 /\ obj.n < Sat
  /\ Len(obj.slices) = Len(obj.fct) /\ Len(obj.fct) > 0

\* C28: in the stored factors of the real plan no even factor follows an
\* odd one; every stage of rfftp::forward and rfftp::backward whose factor
\* is odd is called with an odd ido, for which the routine covers all of
\* its input; the stage of the last stored factor, whose tw is left
\* unassigned, has ido = 1 and reads nothing through wa, and every other
\* stage reads only what comp_twiddle stored for it.
C28_OddIdo ==
  /\ RealPlan =>
       /\ \A i, j \in 1..Len(obj.fct) :
            (i < j /\ obj.fct[i] % 2 = 1) => obj.fct[j] % 2 = 1
       /\ \A k \in 1..Len(obj.fct) :
            LET sl == obj.slices[k]
            IN /\ (sl.fct % 2 = 1) => sl.ido % 2 = 1
               /\ (sl.tw = -1) <=> (k = Len(obj.fct))
               /\ (sl.tw = -1) =>
                    sl.ido = 1 /\ rad_wa_reads(sl.fct, sl.ido) = {}
               /\ rad_wa_reads(sl.fct, sl.ido)
                    \subseteq rfftp_tw_stores(sl.fct, sl.ido)
  /\ (StagesRun /\ cls = "rfftp") =>
       \A i \in 1..Len(op.trace) :
         LET r == op.trace[i]
         IN /\ (r.ip % 2 = 1) =>
                 /\ r.ido % 2 = 1
                 /\ rad_columns(r.ip, r.ido) = 0..(r.ido - 1)
            /\ (StoredIndex(i) = Len(obj.fct)) =>
                 r.ido = 1 /\ rad_wa_reads(r.ip, r.ido) = {}
            /\ rad_wa_reads(r.ip, r.ido) \subseteq rfftp_tw_stores(r.ip, r.ido)

\* the backward transform of length 24, stored factors 2, 4, 3: radb3 is
\* the last stage and runs with ido = 1, radb4 before it with ido = 3
C28_Witness ==
  /\ StagesRun /\ cls = "rfftp" /\ op.dir = "backward" /\ obj.n = 24
  /\ obj.fct = <<2, 4, 3>>
  /\ op.trace[3].ip = 3 /\ op.trace[3].ido = 1
  /\ op.trace[2].ip = 4 /\ op.trace[2].ido = 3
  /\ obj.slices[3].tw = -1

\* ------------------------------------------------- reads of the trig tables
\* the slots of the entry k of the table t are inside it and were stored to
EntryWritten(t, k) ==
  /\ 2 * k + 1 \in DOMAIN t.d
  /\ t.d[2 * k] # Unwritten /\ t.d[2 * k + 1] # Unwritten

\* C29: every entry k comp_twiddle of the complex plan reads from its full
\* table of N entries has k < N; every entry k comp_twiddle of the real plan
\* reads from its half table has 2k < N; the entries read were stored to by
\* the generator of the table; every entry the constructor of fftblue reads
\* from its table of 2N entries has an index below 2N.
C29_TableReads ==
  /\ (ev.fn = "comp_twiddle" /\ PlanBuilt) =>
       \A f \in 1..Len(ev.res.reads) : \A k \in ev.res.reads[f] :
         /\ k >= 0
         /\ IF cls = "cfftp" THEN k < ev.arg ELSE 2 * k < ev.arg
         /\ EntryWritten(ev.res.twid, k)
  /\ ev.fn = "fftblue" =>
       /\ ~ev.res.oob
       /\ Len(ev.res.coeff) = ev.arg - 1
       /\ \A m \in 1..Len(ev.res.coeff) :
            ev.res.coeff[m] >= 0 /\ ev.res.coeff[m] < 2 * ev.arg
       /\ \A i \in 0..(2 * ev.arg - 1) : ev.res.bk[i] # Unwritten

\* the real plan of length 26, stored factors 2 and 13: for the factor 2 the
\* entries 1 to 6 are read, for the factor 13 the entries 2, 4, .. 12, all
\* below the entry 13 that the half table lacks
C29_Witness ==
  /\ ev.fn = "comp_twiddle" /\ PlanBuilt /\ cls = "rfftp" /\ ev.arg = 26
  /\ obj.fct = <<2, 13>>
  /\ ev.res.reads = <<1..6, {2, 4, 6, 8, 10, 12}>>
  /\ ev.res.twid.d[26] # CosSlot(26, 13)

\* ---------------------------------------------------------- slice iteration
\* the number of index tuples before pos in the row-major order of the
\* extents of d
RECURSIVE RowMajorRank(_, _, _, _)
RowMajorRank(pos, d, i, r) ==
  IF i > Len(d) THEN r ELSE RowMajorRank(pos, d, i + 1, r * d[i].n + pos[i])

\* the sum of pos[i] * stride[i] over the axes of d
RECURSIVE OffsetSum(_, _, _)
OffsetSum(pos, d, i) ==
  IF i > Len(d) THEN 0 ELSE pos[i] * d[i].s + OffsetSum(pos, d, i + 1)

\* C30: in the loop "while (it.remaining()>0) { use it.offset();
\* it.advance(); }" over a multi_iter the j-th iteration is at the j-th index
\* tuple of the other axes in row-major order, with offset() the sum of
\* pos[i]*stride[i] modulo the size of the address space; remaining() is the
\* number of tuples still to visit, so the loop ends after the product of the
\* extents of the other axes; and done() holds exactly when remaining() <= 0.
C30_SliceIteration ==
  ev.fn = "multi_iter" =>
    LET it == ev.res.it
        v == ev.res.visits
    IN /\ it.done <=> it.rem <= 0
       /\ (it.rem <= 0) => Len(v) = dims_product(it.dim)
       /\ (it.rem > 0) =>
            /\ it.rem = dims_product(it.dim) - Len(v)
            /\ RowMajorRank(it.pos, it.dim, 1, 0) = Len(v)
            /\ it.ofs = Wrap(OffsetSum(it.pos, it.dim, 1))
       /\ \A j \in 1..Len(v) :
            /\ \A i \in 1..Len(it.dim) :
                 v[j].pos[i] >= 0 /\ v[j].pos[i] < it.dim[i].n
            /\ RowMajorRank(v[j].pos, it.dim, 1, 0) = j - 1
            /\ v[j].ofs = Wrap(OffsetSum(v[j].pos, it.dim, 1))

\* the iterator for axis 1 of an array whose axes 0 and 2 have the extent 2
\* and the stride -1: after the visits of (0, 0) and (0, 1) it is at (1, 0),
\* reached by a carry, with the offset -1 modulo the size of the address
\* space, and two visits remain
C30_Witness ==
  /\ ev.fn = "multi_iter" /\ ev.arg = 1
  /\ ev.res.it.dim = <<[n |-> 2, s |-> -1], [n |-> 2, s |-> -1]>>
  /\ Len(ev.res.visits) = 2 /\ ev.res.visits[2].pos = <<0, 1>>
  /\ ev.res.it.pos = <<1, 0>> /\ ev.res.it.ofs = AddrSpace - 1
  /\ ev.res.it.rem = 2 /\ ~ev.res.it.done

====
